---- MODULE Spec2Model ----
(***************************************************************************)
(* The crawl orchestration engine of DarkWebCrawler: the seed queue kept   *)
(* in MongoDB (src/src/mongo_controller.py) and the crawl loop that works  *)
(* on it (src/src/crawler/tor_controller.py, TorController.start_crawling).*)
(*                                                                         *)
(* A url "http://<host><path>" is the pair <<host, path>>; the seed        *)
(* collection is a function from url to document, NoSeed where the         *)
(* collection holds no document for the url.  Every MongoDB call is one    *)
(* atomic step; a crawl-loop iteration is the sequence of the steps        *)
(* between its calls, so that workers interleave at the store's calls.     *)
(* The upsert of a seed is taken apart, into its query and its write, in   *)
(* the specification of the clients that upsert the same url at once.      *)
(* Time is counted in minutes.  Fields the loop writes and never reads     *)
(* (host, updated_at, last_scraped) are left out of the documents.         *)
(*                                                                         *)
(* The loop posts its payloads to the ingestion service                    *)
(* (src/src/persistence/neo_ingest_server.py), which merges them into the  *)
(* Neo4j graph; a request is one atomic step.  The seed loader             *)
(* (MongoController.load_seeds_bulk) writes seed files into the store.     *)
(***************************************************************************)
EXTENDS Integers, Sequences, FiniteSets, TLC

(* ------------------------------ bounds -------------------------------- *)

\* The clock starts here and stops advancing once it would pass MaxTime.
InitNow == 100
MaxTime == 161

\* Requests made to the ingestion service by hand.
MaxRequests == 3

\* Runs of the seed loader while the crawler works.
MaxLoads == 1

\* Deaths of a worker's process in the middle of an iteration.
MaxCrashes == 1

\* Elements nested inside one another in a document given to the sanitizer.
MaxNesting == 2

(* ------------------------- program constants -------------------------- *)

RESET_INPROGRESS_OLDER_MIN == 60
max_attempts == 4
max_depth == 3
\* sys.maxsize in the source; held here as the largest 32-bit signed integer.
max_pages_to_fetch == 2147483647

\* The value of a timestamp field a document does not have.
NoTime == -1

(* ------------------------------ the web ------------------------------- *)

\* Onion hosts (matched by onion_re) and one clearnet host (not matched).
OnionHosts == {"h0", "h1", "h2", "h3", "h4", "hx", "hy", "hz"}
ClearHost == "clearnet"
Hosts == OnionHosts \cup {ClearHost}

\* A path and query in which onion_re finds an address: that of a redirector.
AddressPath == "/out?to=h4.onion"

Url(h) == <<h, "/">>
Urls == {Url(h) : h \in Hosts}

\* An anchor <a href=...>text</a>: host "" is a relative href.
Anchor(h, p, t) == [host |-> h, path |-> p, text |-> t]

\* What a successful fetch of each host returns: whether the extracted text
\* reaches min_text_chars, the <title>, and the anchors with an href.
Web ==
  [h \in Hosts |->
    CASE h = "h0" -> [long |-> TRUE, title |-> "t0",
                      anchors |-> << Anchor("", "/about", "about"),
                                     Anchor("h1", "/page", "one"),
                                     Anchor(ClearHost, "/", "clear"),
                                     Anchor("h1", "/other", "one") >>]
      [] h = "h1" -> [long |-> TRUE, title |-> "",
                      anchors |-> << Anchor("h2", "/", "") >>]
      [] h = "h2" -> [long |-> TRUE, title |-> "t2",
                      anchors |-> << Anchor("h3", "/a", "three"),
                                     Anchor("h0", "/b", "home") >>]
      [] h = "h3" -> [long |-> TRUE, title |-> "t3",
                      anchors |-> << Anchor("h4", "/", "four"),
                                     Anchor("h3", "/self", "me") >>]
      [] h = "hx" -> [long |-> FALSE, title |-> "tx", anchors |-> << >>]
      [] h = "hy" -> [long |-> TRUE, title |-> "ty",
                      anchors |-> << Anchor("h0", "/", "home") >>]
      [] h = "hz" -> [long |-> TRUE, title |-> "tz",
                      anchors |-> << Anchor(ClearHost, AddressPath, "out") >>]
      [] OTHER    -> [long |-> TRUE, title |-> "ty", anchors |-> << >>] ]

\* The hosts whose processing meets transient failures: the fetch through
\* Tor fails, the snapshot cannot be stored, or the ingestion POST is not
\* answered with 200.  The other hosts are served reliably.
Flaky == {"h0", "h3", "hx"}

(* ------------------------ term-detection context ---------------------- *)

Terms == << [root |-> "drugs", synonyms |-> <<"drugs", "narcotics">>, is_root |-> TRUE] >>
NoTerms == << >>

\* Two roots, one of them with two synonyms; and a root without synonym.
TwoTerms ==
  << [root |-> "drugs", synonyms |-> <<"drugs", "narcotics">>, is_root |-> TRUE],
     [root |-> "weapons", synonyms |-> <<"guns">>, is_root |-> FALSE] >>
NoSynonyms == << [root |-> "drugs", synonyms |-> << >>, is_root |-> FALSE] >>

\* detected as a seed file may hold it without the scraper's records: a list
\* of strings.  A JSON string is written [string |-> s].
Str(s) == [string |-> s]
Strings == << Str("drugs") >>

(* ----------------------------- the state ------------------------------ *)

Workers == {1, 2}

VARIABLES
  seeds,        \* the seeds collection: url -> document or NoSeed
  count,        \* crawler_stats.processed_pages_counter.count
  gridfs,       \* url -> number of sanitized snapshots stored for it
  now,          \* datetime.utcnow(), in minutes
  active,       \* the workers that are run
  pc,           \* worker -> its place in start_crawling
  running,      \* worker -> self.running
  cur,          \* worker -> url, attempts, depth, detected of the seed it claimed, or NoCur
  idx,          \* worker -> index of the next anchor of the link loop
  links_list,   \* worker -> the link-edge records collected for the payload
  gridfs_ref,   \* worker -> whether save_html_to_gridfs returned a file id
  crawled,      \* worker -> crawl_date of this iteration
  did,          \* worker -> what this iteration did so far (history)
  ensured,      \* worker -> urls ensure_seed was called with in this iteration (history)
  fetches,      \* url -> number of fetch_via_tor calls made for it (history)
  claims,       \* url -> pop_next_seed returns since the seed was last resolved (history)
  clean,        \* url -> every claim of the seed so far ended in a revert by the loop (history)
  resp,         \* worker -> what post_page_payload returned in this iteration
  posted,       \* worker -> the payload it posted in this iteration
  root_of,      \* url -> the depth-0 seed whose chain of discoveries inserted the seed (history)
  graph,        \* the Neo4j graph: Page, Term and Synonym nodes and their edges
  driver,       \* the global driver of the ingestion service
  neo_up,       \* whether Neo4j answers on NEO_URI
  API_SECRET,   \* the secret the ingestion service was started with
  http,         \* the last request made to the service by hand and its answer (history)
  requests,     \* number of such requests so far (history)
  loads,        \* number of seed-file loads so far (history)
  crashes,      \* number of deaths of a worker's process so far (history)
  upsert,       \* client -> the upsert of a seed it has under way: the call and what its query matched
  extra,        \* url -> number of documents of the collection with this url beyond the first
  html,         \* the parsed document sanitize_html is given, << >> when there is none
  safe_html,    \* the body sanitize_html puts into the snapshot, << >> before it ran
  stmt,         \* the statement the upsert of the request in flight runs next, 0 when there is none
  before        \* the graph when the last request taken apart into statements arrived (history)

\* What the crawl loop never writes.
env == << driver, neo_up, API_SECRET, http, requests, loads, crashes, upsert, extra,
         html, safe_html, stmt, before >>

vars == << seeds, count, gridfs, now, active, pc, running, cur, idx, links_list,
           gridfs_ref, crawled, did, ensured, fetches, claims, clean,
           resp, posted, root_of, graph, env >>

NoSeed == [status |-> "absent"]

Statuses == {"pending", "in_progress", "ingested", "discarded", "failed_perm"}
Terminal == {"ingested", "discarded", "failed_perm"}

Range(s) == {s[i] : i \in 1..Len(s)}

\* dict.get(k, default)
Get(r, k, default) == IF k \in DOMAIN r THEN r[k] ELSE default

\* The url "": what a record without url gives.
NoUrl == <<"", "">>


(* --------------------- MongoController: the seed store ---------------- *)

Present(S) == {u \in Urls : S[u] # NoSeed}

\* IsStale with the last_try condition lost from the filter.
IsStale_any(d, t) == d.status = "in_progress"

\* reset_stale_inprogress: update_many({status: in_progress, last_try < threshold},
\* {$set: {status: pending}}) with threshold = utcnow() - RESET_INPROGRESS_OLDER_MIN.
IsStale(d, t) ==
  d.status = "in_progress" /\ d.last_try < t - RESET_INPROGRESS_OLDER_MIN

\* reset_stale_inprogress whose update matches no document.
reset_stale_inprogress_none(S, t) == S

reset_stale_inprogress(S, t) ==
  [u \in Urls |-> IF IsStale(S[u], t) THEN [S[u] EXCEPT !.status = "pending"] ELSE S[u]]

\* Claimable with a filter that also takes the seeds being worked on.
Claimable_inprogress(d) == d.status \in {"pending", "in_progress"}

\* pop_next_seed: the filter of find_one_and_update ...
Claimable(d) == d.status = "pending"

\* SortsBefore with created_at descending: the newest seed first.
\* The sort with depth descending: the deepest pending seed comes first.
SortsBefore_deepest(a, b) ==
  \/ a.depth > b.depth
  \/ a.depth = b.depth /\ a.priority > b.priority
  \/ a.depth = b.depth /\ a.priority = b.priority /\ a.created_at < b.created_at

SortsBefore_newest(a, b) ==
  \/ a.depth < b.depth
  \/ a.depth = b.depth /\ a.priority > b.priority
  \/ a.depth = b.depth /\ a.priority = b.priority /\ a.created_at > b.created_at

\* ... its sort [("depth", 1), ("priority", -1), ("created_at", 1)] ...
SortsBefore(a, b) ==
  \/ a.depth < b.depth
  \/ a.depth = b.depth /\ a.priority > b.priority
  \/ a.depth = b.depth /\ a.priority = b.priority /\ a.created_at < b.created_at

\* ... the documents the sort may put first (equal keys come in any order) ...
NextPending(S) ==
  {u \in Urls : /\ Claimable(S[u])
                /\ \A v \in Urls : Claimable(S[v]) => ~SortsBefore(S[v], S[u])}

\* Claimed with the $inc of attempts lost from the update.
Claimed_noinc(d, t) == [d EXCEPT !.status = "in_progress", !.last_try = t]

\* ... and its update {$set: {status: in_progress, last_try: utcnow()}, $inc: {attempts: 1}}.
Claimed(d, t) ==
  [d EXCEPT !.status = "in_progress", !.last_try = t, !.attempts = d.attempts + 1]

pop_next_seed(S, u, t) == [S EXCEPT ![u] = Claimed(S[u], t)]

\* mark_done that leaves update_fields out of the $set: the html_file_id and
\* the title are not written.
mark_done_unfiled(S, url, update_fields, discard_reason) ==
  IF S[url] = NoSeed THEN S
  ELSE IF discard_reason # ""
       THEN [S EXCEPT ![url] = [S[url] EXCEPT !.status = "discarded",
                                              !.discard_reason = discard_reason]]
       ELSE [S EXCEPT ![url] = [S[url] EXCEPT !.status = "ingested"]]

\* mark_done without the branch for a discard_reason: every seed is marked ingested.
mark_done_ingested(S, url, update_fields, discard_reason) ==
  IF S[url] = NoSeed THEN S
  ELSE [S EXCEPT ![url] = [S[url] EXCEPT !.status = "ingested"]]

\* mark_done: update_one({url}, {$set: ...}); no document, no change.
\* update_fields is the pair <<html_file_id, title>> or << >>.
mark_done(S, url, update_fields, discard_reason) ==
  IF S[url] = NoSeed THEN S
  ELSE LET d1 == IF discard_reason # ""
                 THEN [S[url] EXCEPT !.status = "discarded",
                                     !.discard_reason = discard_reason]
                 ELSE [S[url] EXCEPT !.status = "ingested"]
           d2 == IF update_fields # << >>
                 THEN [d1 EXCEPT !.html_file_id = update_fields[1],
                                 !.title = update_fields[2]]
                 ELSE d1
       IN [S EXCEPT ![url] = d2]

\* mark_failed that records the reason and leaves the status.
mark_failed_kept(S, url, reason) ==
  IF S[url] = NoSeed THEN S
  ELSE [S EXCEPT ![url] = [S[url] EXCEPT !.failed_reason = reason]]

mark_failed(S, url, reason) ==
  IF S[url] = NoSeed THEN S
  ELSE [S EXCEPT ![url] = [S[url] EXCEPT !.status = "failed_perm",
                                         !.failed_reason = reason]]

\* revert_to_pending that also lowers the priority of the seed it reverts.
revert_to_pending_demoted(S, url) ==
  IF S[url] = NoSeed THEN S
  ELSE [S EXCEPT ![url] = [S[url] EXCEPT !.status = "pending", !.priority = @ - 1]]

\* revert_to_pending whose update is lost: the seed stays in_progress.
revert_to_pending_lost(S, url) == S

revert_to_pending(S, url) ==
  IF S[url] = NoSeed THEN S
  ELSE [S EXCEPT ![url] = [S[url] EXCEPT !.status = "pending"]]

\* The document ensure_seed builds for $setOnInsert.  "detected or []" turns
\* None and [] into []; a term context is a sequence here and << >> stands for both.
NewSeed(detected, depth, t) ==
  [status |-> "pending", attempts |-> 0, priority |-> 0, depth |-> depth,
   detected |-> IF detected = << >> THEN NoTerms ELSE detected,
   origins |-> << >>, created_at |-> t, last_try |-> NoTime,
   discard_reason |-> "", failed_reason |-> "", html_file_id |-> << >>, title |-> ""]

\* AddToSet as a $push: the value is appended whether or not it is there.
AddToSet_push(arr, x) == Append(arr, x)

\* $addToSet: the array gains the value unless it already holds it.
AddToSet(arr, x) == IF x \in Range(arr) THEN arr ELSE Append(arr, x)

\* ensure_seed with status among the fields set on every call, as the seed
\* loader has it: a rediscovered seed is queued again.
ensure_seed_requeue(S, url, detected, origin, depth, t) ==
  LET d == IF S[url] = NoSeed THEN NewSeed(detected, depth, t)
           ELSE [S[url] EXCEPT !.status = "pending"]
  IN [S EXCEPT ![url] = [d EXCEPT !.origins = AddToSet(d.origins, origin[1])]]

\* ensure_seed with detected and depth among the fields set on every call: a
\* rediscovered seed takes the term context and the depth of its latest parent.
ensure_seed_redetect(S, url, detected, origin, depth, t) ==
  LET d == [(IF S[url] = NoSeed THEN NewSeed(detected, depth, t) ELSE S[url])
              EXCEPT !.detected = detected, !.depth = depth]
  IN [S EXCEPT ![url] = [d EXCEPT !.origins = AddToSet(d.origins, origin[1])]]

\* ensure_seed: update_one({url}, {$addToSet: {origins: origin}, $setOnInsert: doc},
\* upsert=True); without an origin only the $setOnInsert.  origin is << >> for
\* None and <<record>> otherwise.
ensure_seed(S, url, detected, origin, depth, t) ==
  LET d == IF S[url] = NoSeed THEN NewSeed(detected, depth, t) ELSE S[url]
  IN IF origin # << >>
     THEN [S EXCEPT ![url] = [d EXCEPT !.origins = AddToSet(d.origins, origin[1])]]
     ELSE [S EXCEPT ![url] = d]

\* LoadOne with attempts among the fields that are always set.
LoadOne_fresh(S, s, t) ==
  LET url == Get(s, "url", NoUrl)
      detected == Get(s, "detected", NoTerms)
  IN IF url = NoUrl THEN S
     ELSE IF S[url] = NoSeed
          THEN [S EXCEPT ![url] = NewSeed(detected, 0, t)]
          ELSE [S EXCEPT ![url] = [S[url] EXCEPT !.detected = detected,
                                                 !.status = "pending",
                                                 !.attempts = 0]]

\* One record of the seed file: skipped without a url; else UpdateOne({url},
\* {$setOnInsert: {created_at, attempts 0, priority 0, depth 0, ...},
\* $set: {detected: s.get("detected", []), status: "pending"}}, upsert=True).
LoadOne(S, s, t) ==
  LET url == Get(s, "url", NoUrl)
      detected == Get(s, "detected", NoTerms)
  IN IF url = NoUrl THEN S
     ELSE IF S[url] = NoSeed
          THEN [S EXCEPT ![url] = NewSeed(detected, 0, t)]
          ELSE [S EXCEPT ![url] = [S[url] EXCEPT !.detected = detected,
                                                 !.status = "pending"]]

\* load_seeds_bulk: one upsert per record of the file.
RECURSIVE load_seeds_bulk(_, _, _)
load_seeds_bulk(S, file, t) ==
  IF file = << >> THEN S ELSE load_seeds_bulk(LoadOne(S, Head(file), t), Tail(file), t)

\* get_and_inc_processed_count: $inc {count: 1}, upsert, returning the new value.
get_and_inc_processed_count(c) == c + 1

(* --------------- NeoIngestServer: the ingestion service --------------- *)

\* A property a node does not have.
Null == "null"

\* The secret of the client (NEO_INGEST_SECRET) and the ones the service may be started with.
NEO_INGEST_SECRET == "changeme"
Secrets == {"changeme", "rotated"}

\* global driver: None, or the object GraphDatabase.driver returned.
NoDriver == "None"
Driver == "driver"

\* coalesce(x, timestamp())
coalesce(x, t) == IF x = NoTime THEN t ELSE x

\* A node MERGE (p:Page {url: ...}) creates: the url and nothing else.
BarePage ==
  [title |-> Null, text |-> Null, host |-> Null, has_html_content |-> FALSE,
   first_seen |-> NoTime, updated_at |-> NoTime, Seed |-> FALSE,
   first_seen_as_link |-> NoTime]

\* The graph: pages, links and mentions are functions on the keys that exist.
EmptyGraph ==
  [pages |-> << >>, links |-> << >>, mentions |-> << >>,
   terms |-> {}, synonyms |-> {}, is_synonym_of |-> {}]

\* MERGE (p:Page {url}) without ON CREATE / ON MATCH.
MergeNode(pages, url) ==
  IF url \in DOMAIN pages THEN pages ELSE (url :> BarePage) @@ pages

\* MergePage whose ON MATCH sets title and text to the incoming values as they are.
MergePage_overwrite(pages, page, t) ==
  LET url == Get(page, "url", NoUrl)
      title == Get(page, "title", "")
      text == Get(page, "text", "")
      crawl_date == Get(page, "crawl_date", NoTime)
  IN IF url \notin DOMAIN pages
     THEN (url :> [BarePage EXCEPT !.title = title, !.text = text, !.host = url[1],
                                   !.has_html_content = TRUE,
                                   !.first_seen = coalesce(crawl_date, t)]) @@ pages
     ELSE [pages EXCEPT ![url] =
             [@ EXCEPT !.title = title, !.text = text,
                       !.updated_at = coalesce(crawl_date, t)]]

\* 1. MERGE (p:Page {url: $url}) ON CREATE SET ... ON MATCH SET ...;
\* host = urlparse(url).hostname or url.
MergePage(pages, page, t) ==
  LET url == Get(page, "url", NoUrl)
      title == Get(page, "title", "")
      text == Get(page, "text", "")
      crawl_date == Get(page, "crawl_date", NoTime)
  IN IF url \notin DOMAIN pages
     THEN (url :> [BarePage EXCEPT !.title = title, !.text = text, !.host = url[1],
                                   !.has_html_content = TRUE,
                                   !.first_seen = coalesce(crawl_date, t)]) @@ pages
     ELSE [pages EXCEPT ![url] =
             [@ EXCEPT !.title = IF title # "" THEN title ELSE @,
                       !.text = IF text # "" THEN text ELSE @,
                       !.updated_at = coalesce(crawl_date, t)]]

\* MergeLink whose ON MATCH sets the count as ON CREATE does.
MergeLink_reset(G, r, t) ==
  LET k == <<r.src_url, r.dst_url>>
  IN [G EXCEPT !.pages = MergeNode(MergeNode(@, r.src_url), r.dst_url),
               !.links = (k :> [count |-> 1, first_detected |-> coalesce(r.crawl_date, t),
                                depth |-> r.depth, last_detected |-> NoTime,
                                last_anchor |-> Null]) @@ @]

\* 2. One row of UNWIND $rows: MERGE a, MERGE b ON CREATE SET b:Seed ...,
\* MERGE (a)-[rel:LINKS_TO]->(b) ON CREATE SET ... ON MATCH SET ...
MergeLink(G, r, t) ==
  LET k == <<r.src_url, r.dst_url>>
  IN [G EXCEPT
        !.pages = LET p1 == MergeNode(@, r.src_url)
                  IN IF r.dst_url \in DOMAIN p1 THEN p1
                     ELSE (r.dst_url :> [BarePage EXCEPT
                                           !.Seed = TRUE,
                                           !.first_seen_as_link =
                                              coalesce(r.crawl_date, t)]) @@ p1,
        !.links = IF k \notin DOMAIN @
                  THEN (k :> [count |-> 1, first_detected |-> coalesce(r.crawl_date, t),
                              depth |-> r.depth, last_detected |-> NoTime,
                              last_anchor |-> Null]) @@ @
                  ELSE [@ EXCEPT ![k] =
                          [@ EXCEPT !.count = @ + 1,
                                    !.last_detected = coalesce(r.crawl_date, t),
                                    !.last_anchor = r.anchor]]]

RECURSIVE MergeLinks(_, _, _)
MergeLinks(G, rows, t) ==
  IF rows = << >> THEN G ELSE MergeLinks(MergeLink(G, Head(rows), t), Tail(rows), t)

\* MergeMention whose ON MATCH sets first_seen as ON CREATE does.
MergeMention_refresh(G, r, t) ==
  LET k == <<r.page_url, r.synonym, r.source, r.root>>
  IN [G EXCEPT
        !.terms = @ \cup {r.root},
        !.synonyms = @ \cup {r.synonym},
        !.is_synonym_of = @ \cup {<<r.synonym, r.root>>},
        !.pages = MergeNode(@, r.page_url),
        !.mentions = IF k \notin DOMAIN @
                     THEN (k :> [count |-> 1,
                                 first_seen |-> coalesce(r.crawl_date, t)]) @@ @
                     ELSE [@ EXCEPT ![k] =
                             [@ EXCEPT !.count = @ + 1,
                                       !.first_seen = coalesce(r.crawl_date, t)]]]

\* 3. One row of UNWIND $rows: MERGE Term, Synonym, IS_SYNONYM_OF, Page,
\* MERGE (p)-[m:MENTIONS {source, root}]->(s) ON CREATE SET ... ON MATCH SET ...
MergeMention(G, r, t) ==
  LET k == <<r.page_url, r.synonym, r.source, r.root>>
  IN [G EXCEPT
        !.terms = @ \cup {r.root},
        !.synonyms = @ \cup {r.synonym},
        !.is_synonym_of = @ \cup {<<r.synonym, r.root>>},
        !.pages = MergeNode(@, r.page_url),
        !.mentions = IF k \notin DOMAIN @
                     THEN (k :> [count |-> 1,
                                 first_seen |-> coalesce(r.crawl_date, t)]) @@ @
                     ELSE [@ EXCEPT ![k] = [@ EXCEPT !.count = @ + 1]]]

RECURSIVE MergeMentions(_, _, _)
MergeMentions(G, rows, t) ==
  IF rows = << >> THEN G
  ELSE MergeMentions(MergeMention(G, Head(rows), t), Tail(rows), t)

\* _upsert_page_and_relations once the driver is there and Neo4j answers.
upsert_page_and_relations(G, payload, t) ==
  LET page == Get(payload, "page", << >>)
      links == Get(payload, "links", << >>)
      matched == Get(payload, "matched_terms", << >>)
      G1 == [G EXCEPT !.pages = MergePage(@, page, t)]
      G2 == MergeLinks(G1, links, t)
  IN MergeMentions(G2, matched, t)

\* key = request.headers.get("X-API-KEY"); key != API_SECRET aborts with 403.
\* key is << >> for no header and <<value>> otherwise.
Authorized(key, secret) == key = <<secret>>

\* payload = request.get_json(silent=True); "not payload or 'page' not in payload"
\* aborts with 400.  body is << >> when it is no JSON and <<object>> otherwise.
WellFormed(body) ==
  body # << >> /\ DOMAIN body[1] # {} /\ "page" \in DOMAIN body[1]

\* The upsert raises when there is no driver ("if not driver: raise") or when
\* opening the session or running a query fails because Neo4j does not answer.
Usable(drv, up) == drv # NoDriver /\ up

\* POST /ingest_page: the status of the answer and the graph it leaves.
ingest_page(key, body, G, drv, up, secret, t) ==
  IF ~Authorized(key, secret) THEN [status |-> 403, graph |-> G]
  ELSE IF ~WellFormed(body) THEN [status |-> 400, graph |-> G]
  ELSE IF ~Usable(drv, up) THEN [status |-> 500, graph |-> G]
  ELSE [status |-> 200, graph |-> upsert_page_and_relations(G, body[1], t)]

\* GET /health: "if not driver" 503, else 200.
health(drv, up) == IF drv = NoDriver THEN 503 ELSE 200

\* _initialize_driver: the driver is kept when verify_connectivity passes, None otherwise.
initialize_driver(up) == IF up THEN Driver ELSE NoDriver

(* -------------------- TorController: sanitize_html -------------------- *)

\* A parsed document is a tree: a text node [text], or an element
\* [tag, attrs, kids] with attrs a function from attribute names to values and
\* kids the sequence of its children.  An attribute name is the sequence of
\* its characters, so that its first characters and its case can be looked at.
Text(t) == [text |-> t]
Elem(tag, attrs, kids) == [tag |-> tag, attrs |-> attrs, kids |-> kids]
IsElem(n) == "tag" \in DOMAIN n

\* str.lower(), on a character and on a name.
UpperCase == << "A", "B", "C", "D", "E", "F", "G", "H", "I", "J", "K", "L", "M",
                "N", "O", "P", "Q", "R", "S", "T", "U", "V", "W", "X", "Y", "Z" >>
LowerCase == << "a", "b", "c", "d", "e", "f", "g", "h", "i", "j", "k", "l", "m",
                "n", "o", "p", "q", "r", "s", "t", "u", "v", "w", "x", "y", "z" >>
LowerChar(c) ==
  IF \E i \in DOMAIN UpperCase : UpperCase[i] = c
  THEN LowerCase[CHOOSE i \in DOMAIN UpperCase : UpperCase[i] = c]
  ELSE c
Lower(name) == [i \in DOMAIN name |-> LowerChar(name[i])]

\* The lower-case form of the attribute values the sanitizer looks at.
LowerValue(v) ==
  CASE v = "Refresh" -> "refresh"
    [] v = "REFRESH" -> "refresh"
    [] OTHER -> v

\* 1. for tag_name in ['script', 'style', 'noscript', 'iframe', 'form', 'object', 'embed']
DangerousTags == << "script", "style", "noscript", "iframe", "form", "object", "embed" >>

\* for t in soup.find_all(tag_name): t.decompose()
RECURSIVE Decompose(_, _)
Decompose(kids, tag_name) ==
  IF kids = << >> THEN << >>
  ELSE LET n == Head(kids)
           rest == Decompose(Tail(kids), tag_name)
       IN IF ~IsElem(n) THEN << n >> \o rest
          ELSE IF n.tag = tag_name THEN rest
          ELSE << [n EXCEPT !.kids = Decompose(@, tag_name)] >> \o rest

RECURSIVE DecomposeAll(_, _)
DecomposeAll(kids, names) ==
  IF names = << >> THEN kids
  ELSE DecomposeAll(Decompose(kids, Head(names)), Tail(names))

\* The name of the alt attribute, and the placeholder f" [IMG: {alt}] ".
ALT == << "a", "l", "t" >>
Placeholder(img) == " [IMG: " \o Get(img.attrs, ALT, "[imagen]") \o "] "

\* 2. for img in soup.find_all('img'): img.replace_with(placeholder)
RECURSIVE ReplaceImages(_)
ReplaceImages(kids) ==
  IF kids = << >> THEN << >>
  ELSE LET n == Head(kids)
           rest == ReplaceImages(Tail(kids))
       IN IF ~IsElem(n) THEN << n >> \o rest
          ELSE IF n.tag = "img" THEN << Text(Placeholder(n)) >> \o rest
          ELSE << [n EXCEPT !.kids = ReplaceImages(@)] >> \o rest

\* 3. for a in soup.find_all('a'): a.replace_with(*a.contents), or
\* a.decompose() when it has no contents.  The anchors are taken in document
\* order, so that an anchor inside another is met in its new place.
RECURSIVE ReplaceAnchors(_)
ReplaceAnchors(kids) ==
  IF kids = << >> THEN << >>
  ELSE LET n == Head(kids)
           rest == ReplaceAnchors(Tail(kids))
       IN IF ~IsElem(n) THEN << n >> \o rest
          ELSE IF n.tag = "a" THEN ReplaceAnchors(n.kids) \o rest
          ELSE << [n EXCEPT !.kids = ReplaceAnchors(@)] >> \o rest

\* meta.get('http-equiv', '').lower() == 'refresh'
HTTP_EQUIV == << "h", "t", "t", "p", "-", "e", "q", "u", "i", "v" >>
IsMetaRefresh(n) ==
  n.tag = "meta" /\ LowerValue(Get(n.attrs, HTTP_EQUIV, "")) = "refresh"

\* 4. for meta in soup.find_all('meta'): decompose the refreshing ones.
RECURSIVE RemoveMetaRefresh(_)
RemoveMetaRefresh(kids) ==
  IF kids = << >> THEN << >>
  ELSE LET n == Head(kids)
           rest == RemoveMetaRefresh(Tail(kids))
       IN IF ~IsElem(n) THEN << n >> \o rest
          ELSE IF IsMetaRefresh(n) THEN rest
          ELSE << [n EXCEPT !.kids = RemoveMetaRefresh(@)] >> \o rest

\* event_attrs = re.compile(r'^on', re.IGNORECASE), matched against the name as it is.
EventAttr(attr) ==
  Len(attr) >= 2 /\ LowerChar(attr[1]) = "o" /\ LowerChar(attr[2]) = "n"

\* attrs_to_remove = ('style', 'src', 'srcset', 'href', 'data')
attrs_to_remove ==
  { << "s", "t", "y", "l", "e" >>, << "s", "r", "c" >>, << "s", "r", "c", "s", "e", "t" >>,
    << "h", "r", "e", "f" >>, << "d", "a", "t", "a" >> }

\* ToRemove without the lower-casing of the name.
ToRemove_cased(attr) == EventAttr(attr) \/ attr \in attrs_to_remove

\* if event_attrs.match(attr) or attr_lower in attrs_to_remove
ToRemove(attr) == EventAttr(attr) \/ Lower(attr) \in attrs_to_remove

\* The attributes a tag keeps.
Kept(attrs) == [a \in {b \in DOMAIN attrs : ~ToRemove(b)} |-> attrs[a]]

\* 5. for tag in soup.find_all(True): del tag.attrs[a] for the names to remove.
RECURSIVE RemoveAttrs(_)
RemoveAttrs(kids) ==
  [i \in DOMAIN kids |->
     IF IsElem(kids[i])
     THEN [kids[i] EXCEPT !.attrs = Kept(@), !.kids = RemoveAttrs(@)]
     ELSE kids[i]]

\* soup.body: the first body element in document order, << >> when there is none.
RECURSIVE FindBody(_)
FindBody(kids) ==
  IF kids = << >> THEN << >>
  ELSE LET n == Head(kids)
           inside == IF IsElem(n) THEN FindBody(n.kids) ELSE << >>
       IN IF IsElem(n) /\ n.tag = "body" THEN << n >>
          ELSE IF inside # << >> THEN inside
          ELSE FindBody(Tail(kids))

\* sanitize_html: the five passes over the soup, then safe_body = soup.body or
\* soup, which is what the snapshot holds of the input.
sanitize_html(soup) ==
  LET cleaned == RemoveAttrs(RemoveMetaRefresh(ReplaceAnchors(ReplaceImages(
                   DecomposeAll(soup.kids, DangerousTags)))))
      safe_body == FindBody(cleaned)
  IN IF safe_body # << >> THEN safe_body[1] ELSE [soup EXCEPT !.kids = cleaned]

(* ------------------- TorController: the crawl loop -------------------- *)

\* urljoin(url, href).split('#')[0]: a relative href takes the host of the page.
UrlJoin(url, a) == IF a.host = "" THEN <<url[1], a.path>> ELSE <<a.host, a.path>>

\* self.onion_re.search(full_link): the pattern is searched in the whole url,
\* host, path and query.
OnionMatch(full_link) == full_link[1] \in OnionHosts \/ full_link[2] = AddressPath

\* link = "http://" + hostname + "/": the path is dropped.
Normalize(full_link) == <<full_link[1], "/">>

\* a.get_text(strip=True) or "[enlace]", cut to 200 characters (texts here are short).
AnchorText(a) == IF a.text # "" THEN a.text ELSE "[enlace]"

\* ExceedsMaxAttempts one too late, and one too early.
ExceedsMaxAttempts_late(attempts) == attempts > max_attempts + 1
ExceedsMaxAttempts_early(attempts) == attempts >= max_attempts

\* if attempts > self.max_attempts
ExceedsMaxAttempts(attempts) == attempts > max_attempts

\* WithinDepth off by one.
WithinDepth_off(new_depth) == new_depth <= max_depth + 1

\* if new_depth <= self.max_depth
WithinDepth(new_depth) == new_depth <= max_depth

\* IsSelfLink with the comparison left out.
IsSelfLink_never(link, url) == FALSE

\* if link == url
IsSelfLink(link, url) == link = url

\* TermsOfEntry with a record for the root itself where an entry has no synonym.
TermsOfEntry_root(url, root, syns, t) ==
  [i \in 1..(IF syns = << >> THEN 1 ELSE Len(syns)) |->
     [page_url |-> url, root |-> root,
      synonym |-> IF syns = << >> THEN root ELSE syns[i],
      source |-> "ahmia", crawl_date |-> t]]

\* TermsOfEntry that stops after the first synonym.
TermsOfEntry_first(url, root, syns, t) ==
  IF syns = << >> THEN << >>
  ELSE << [page_url |-> url, root |-> root, synonym |-> Head(syns),
           source |-> "ahmia", crawl_date |-> t] >>

\* The matched-term records of one detected entry: one per synonym.
RECURSIVE TermsOfEntry(_, _, _, _)
TermsOfEntry(url, root, syns, t) ==
  IF syns = << >> THEN << >>
  ELSE << [page_url |-> url, root |-> root, synonym |-> Head(syns),
           source |-> "ahmia", crawl_date |-> t] >>
       \o TermsOfEntry(url, root, Tail(syns), t)

\* matched_terms: for d in detected, for syn in d.synonyms.
RECURSIVE MatchedTerms(_, _, _)
MatchedTerms(url, detected, t) ==
  IF detected = << >> THEN << >>
  ELSE TermsOfEntry(url, Head(detected).root, Head(detected).synonyms, t)
       \o MatchedTerms(url, Tail(detected), t)

\* The link-edge record appended to links_list.
LinkEdge(url, link, a, depth, ref, t) ==
  [src_url |-> url, dst_url |-> link, anchor |-> AnchorText(a), depth |-> depth,
   dst_html_ref |-> ref, crawl_date |-> t]


\* page_node; the text that passed the length filter is not empty.
PageNode(url, title, crawl_date, ref) ==
  [url |-> url, title |-> title, text |-> "text", crawl_date |-> crawl_date,
   html_file_id |-> ref]

\* payload = {"page": page_node, "links": links_list, "matched_terms": matched_terms}
Payload(url, title, crawl_date, ref, links, detected) ==
  [page |-> PageNode(url, title, crawl_date, ref), links |-> links,
   matched_terms |-> MatchedTerms(url, detected, crawl_date)]

\* url, attempts, current_page_depth, current_seed_detected of the claimed seed.
Locals(u, d) == [url |-> u, attempts |-> d.attempts, depth |-> d.depth, detected |-> d.detected]
NoCur == [url |-> << >>, attempts |-> 0, depth |-> 0, detected |-> << >>]

(* ------------------------------ Init ---------------------------------- *)

\* A seed as the loader or an earlier run left it.
Seed(status, attempts, depth, detected, created, last) ==
  [NewSeed(detected, depth, created) EXCEPT !.status = status, !.attempts = attempts,
                                        !.last_try = last]

\* The workers' side of the initial state: nothing started yet.
InitWorkers ==
  /\ pc = [w \in Workers |-> "off"]
  /\ running = [w \in Workers |-> TRUE]
  /\ cur = [w \in Workers |-> NoCur]
  /\ idx = [w \in Workers |-> 1]
  /\ links_list = [w \in Workers |-> << >>]
  /\ gridfs_ref = [w \in Workers |-> << >>]
  /\ crawled = [w \in Workers |-> NoTime]
  /\ did = [w \in Workers |-> {}]
  /\ ensured = [w \in Workers |-> {}]
  /\ count = 0
  /\ gridfs = [u \in Urls |-> 0]
  /\ now = InitNow
  /\ resp = [w \in Workers |-> << >>]
  /\ posted = [w \in Workers |-> << >>]

\* The store's side, given the documents: the history of a seed that an
\* earlier worker left in_progress is not known (it was fetched or not).
InitStore(S) ==
  /\ seeds = S
  /\ root_of = [u \in Urls |-> IF S[u] # NoSeed /\ S[u].depth = 0 THEN u ELSE NoUrl]
  /\ fetches \in [Urls -> 0..1]
  /\ \A u \in Urls : fetches[u] = 1 => S[u].status = "in_progress"
  /\ claims = [u \in Urls |-> IF S[u].status = "in_progress" THEN 1 ELSE 0]
  /\ clean = [u \in Urls |-> S[u].status # "in_progress"]

\* No request was made by hand yet.
NoHttp == [method |-> "", key |-> << >>, body |-> << >>, status |-> 0]

\* The ingestion service started with the client's secret while Neo4j was up,
\* and an empty graph.
InitBackend ==
  /\ graph = EmptyGraph
  /\ neo_up = TRUE
  /\ driver = initialize_driver(TRUE)
  /\ API_SECRET = NEO_INGEST_SECRET
  /\ http = NoHttp
  /\ requests = 0
  /\ loads = 0
  /\ crashes = 0
  /\ upsert = [c \in Workers |-> << >>]
  /\ extra = [u \in Urls |-> 0]
  /\ stmt = 0
  /\ before = EmptyGraph

\* ... and no document under the sanitizer.
InitEnv ==
  /\ InitBackend
  /\ html = << >>
  /\ safe_html = << >>

\* The seed file loaded (h0 with terms, hy without), and hx left in_progress by
\* a worker that died, either longer ago than the reclaim window or just now.
Init ==
  /\ InitWorkers
  /\ InitEnv
  /\ active = {1}
  /\ \E last \in {0, InitNow} :
       InitStore([u \in Urls |->
         CASE u = Url("h0") -> Seed("pending", 0, 0, Terms, 10, NoTime)
           [] u = Url("hy") -> Seed("pending", 0, 0, NoTerms, 20, NoTime)
           [] u = Url("hx") -> Seed("in_progress", 1, 0, Terms, 5, last)
           [] OTHER -> NoSeed])

\* The same with the abandoned seed older than the reclaim window.
InitLive ==
  /\ InitWorkers
  /\ InitEnv
  /\ active = {1}
  /\ InitStore([u \in Urls |->
         CASE u = Url("h0") -> Seed("pending", 0, 0, Terms, 10, NoTime)
           [] u = Url("hy") -> Seed("pending", 0, 0, NoTerms, 20, NoTime)
           [] u = Url("hx") -> Seed("in_progress", 1, 0, Terms, 5, 0)
           [] OTHER -> NoSeed])

\* Two workers on a store an earlier run left: either h3, found at depth 2 and
\* not yet claimed; or hx and hy, loaded from the seed file.
InitMulti ==
  /\ InitWorkers
  /\ InitEnv
  /\ active = {1, 2}
  /\ \/ InitStore([u \in Urls |->
          CASE u = Url("h3") -> Seed("pending", 0, 2, Terms, 10, NoTime)
            [] OTHER -> NoSeed])
     \/ InitStore([u \in Urls |->
          CASE u = Url("hy") -> Seed("pending", 0, 0, NoTerms, 20, NoTime)
            [] u = Url("hx") -> Seed("pending", 0, 0, Terms, 5, NoTime)
            [] OTHER -> NoSeed])

(* ----------------------------- actions -------------------------------- *)

\* Time passes: a little more than one reclaim window.  The clock is read by
\* reset_stale_inprogress alone, at a worker's start: it is advanced as long as
\* a worker is still to start.
Tick ==
  /\ \E w \in active : pc[w] = "off"
  /\ now + RESET_INPROGRESS_OLDER_MIN + 1 <= MaxTime
  /\ now' = now + RESET_INPROGRESS_OLDER_MIN + 1
  /\ UNCHANGED << seeds, count, gridfs, active, pc, running, cur, idx, links_list,
                  gridfs_ref, crawled, did, ensured, fetches, claims, clean >>
  /\ UNCHANGED << graph, resp, posted, root_of, env >>

\* handle_sigint
Sigint(w) ==
  /\ w \in active /\ pc[w] # "done" /\ running[w]
  /\ running' = [running EXCEPT ![w] = FALSE]
  /\ UNCHANGED << seeds, count, gridfs, now, active, pc, cur, idx, links_list,
                  gridfs_ref, crawled, did, ensured, fetches, claims, clean >>
  /\ UNCHANGED << graph, resp, posted, root_of, env >>

\* Time passes while the workers run: a little more than one reclaim window.
Elapse ==
  /\ now + RESET_INPROGRESS_OLDER_MIN + 1 <= MaxTime
  /\ now' = now + RESET_INPROGRESS_OLDER_MIN + 1
  /\ UNCHANGED << seeds, count, gridfs, active, pc, running, cur, idx, links_list,
                  gridfs_ref, crawled, did, ensured, fetches, claims, clean >>
  /\ UNCHANGED << graph, resp, posted, root_of, env >>

\* The history of the seeds a store call resolved: no claim on them is open.
Resolved(S, T, c) ==
  [u \in Urls |-> IF S[u].status = "in_progress" /\ T[u].status # "in_progress"
                  THEN 0 ELSE c[u]]

\* start_crawling up to the loop: reset_stale_inprogress().
Start(w) ==
  /\ w \in active /\ pc[w] = "off"
  /\ seeds' = reset_stale_inprogress(seeds, now)
  /\ claims' = Resolved(seeds, seeds', claims)
  /\ clean' = [u \in Urls |-> clean[u] /\ ~IsStale(seeds[u], now)]
  /\ pc' = [pc EXCEPT ![w] = "loop"]
  /\ UNCHANGED << count, gridfs, now, active, running, cur, idx, links_list,
                  gridfs_ref, crawled, did, ensured, fetches >>
  /\ UNCHANGED << graph, resp, posted, root_of, env >>

\* while self.running fails, or the page limit is reached: leave the loop, close().
LoopExit(w) ==
  /\ pc[w] = "loop"
  /\ ~running[w] \/ count >= max_pages_to_fetch
  /\ pc' = [pc EXCEPT ![w] = "done"]
  /\ UNCHANGED << seeds, count, gridfs, now, active, running, cur, idx, links_list,
                  gridfs_ref, crawled, did, ensured, fetches, claims, clean >>
  /\ UNCHANGED << graph, resp, posted, root_of, env >>

\* The locals of an iteration are dead once it is over (each is assigned again
\* before it is read): they are forgotten at its end.
Forget(w) ==
  /\ cur' = [cur EXCEPT ![w] = NoCur]
  /\ idx' = [idx EXCEPT ![w] = 1]
  /\ links_list' = [links_list EXCEPT ![w] = << >>]
  /\ gridfs_ref' = [gridfs_ref EXCEPT ![w] = << >>]
  /\ crawled' = [crawled EXCEPT ![w] = NoTime]
  /\ did' = [did EXCEPT ![w] = {}]
  /\ ensured' = [ensured EXCEPT ![w] = {}]
  /\ resp' = [resp EXCEPT ![w] = << >>]
  /\ posted' = [posted EXCEPT ![w] = << >>]

\* The worker's process dies in the middle of an iteration, between the claim
\* and the call that resolves it: nothing is written, its locals are gone, and
\* the process may be run again (__main__).
Crash(w) ==
  /\ w \in active /\ pc[w] \in {"claimed", "save", "links"}
  /\ crashes < MaxCrashes
  /\ crashes' = crashes + 1
  /\ pc' = [pc EXCEPT ![w] = "off"]
  /\ Forget(w)
  /\ UNCHANGED << seeds, count, gridfs, now, active, running, fetches, claims, clean >>
  /\ UNCHANGED << graph, root_of, driver, neo_up, API_SECRET, http, requests, loads,
                  upsert, extra, html, safe_html,
                  stmt, before >>

\* seed = pop_next_seed() returns a document.
PopSeed(w) ==
  /\ pc[w] = "loop" /\ running[w] /\ count < max_pages_to_fetch
  /\ \E u \in NextPending(seeds) :
       /\ seeds' = pop_next_seed(seeds, u, now)
       /\ cur' = [cur EXCEPT ![w] = Locals(u, seeds'[u])]
       /\ claims' = [claims EXCEPT ![u] = @ + 1]
  /\ pc' = [pc EXCEPT ![w] = "claimed"]
  /\ UNCHANGED << count, gridfs, now, active, running, idx, links_list, gridfs_ref,
                  crawled, did, ensured, fetches, clean >>
  /\ UNCHANGED << graph, resp, posted, root_of, env >>


\* pop_next_seed() returns None: sleep and try again.
PopEmpty(w) ==
  /\ pc[w] = "loop" /\ running[w] /\ count < max_pages_to_fetch
  /\ NextPending(seeds) = {}
  /\ pc' = [pc EXCEPT ![w] = "sleep"]
  /\ UNCHANGED << seeds, count, gridfs, now, active, running, cur, idx, links_list,
                  gridfs_ref, crawled, did, ensured, fetches, claims, clean >>
  /\ UNCHANGED << graph, resp, posted, root_of, env >>

\* The head of the loop taken apart, for a signal that arrives inside it:
\* LoopTurn whose "while" does not look at self.running.
LoopTurn_deaf(w) ==
  /\ pc[w] = "loop" /\ count < max_pages_to_fetch
  /\ pc' = [pc EXCEPT ![w] = "head"]
  /\ UNCHANGED << seeds, count, gridfs, now, active, running, cur, idx, links_list,
                  gridfs_ref, crawled, did, ensured, fetches, claims, clean >>
  /\ UNCHANGED << graph, resp, posted, root_of, env >>

\* "while self.running" holds and get_current_processed_count() is under the
\* limit: the turn is begun, pop_next_seed is still to be called.
LoopTurn(w) ==
  /\ pc[w] = "loop" /\ running[w] /\ count < max_pages_to_fetch
  /\ pc' = [pc EXCEPT ![w] = "head"]
  /\ UNCHANGED << seeds, count, gridfs, now, active, running, cur, idx, links_list,
                  gridfs_ref, crawled, did, ensured, fetches, claims, clean >>
  /\ UNCHANGED << graph, resp, posted, root_of, env >>

\* seed = pop_next_seed() of a turn that was begun returns a document.
TurnPopSeed(w) ==
  /\ pc[w] = "head"
  /\ \E u \in NextPending(seeds) :
       /\ seeds' = pop_next_seed(seeds, u, now)
       /\ cur' = [cur EXCEPT ![w] = Locals(u, seeds'[u])]
       /\ claims' = [claims EXCEPT ![u] = @ + 1]
  /\ pc' = [pc EXCEPT ![w] = "claimed"]
  /\ UNCHANGED << count, gridfs, now, active, running, idx, links_list, gridfs_ref,
                  crawled, did, ensured, fetches, clean >>
  /\ UNCHANGED << graph, resp, posted, root_of, env >>

\* pop_next_seed() of a turn that was begun returns None: sleep, continue.
TurnPopEmpty(w) ==
  /\ pc[w] = "head"
  /\ NextPending(seeds) = {}
  /\ pc' = [pc EXCEPT ![w] = "sleep"]
  /\ UNCHANGED << seeds, count, gridfs, now, active, running, cur, idx, links_list,
                  gridfs_ref, crawled, did, ensured, fetches, claims, clean >>
  /\ UNCHANGED << graph, resp, posted, root_of, env >>

\* attempts > max_attempts: mark_failed(url, "max_attempts_reached"), sleep, continue.
MarkFailedMax(w) ==
  /\ pc[w] = "claimed"
  /\ ExceedsMaxAttempts(cur[w].attempts)
  /\ seeds' = mark_failed(seeds, cur[w].url, "max_attempts_reached")
  /\ claims' = Resolved(seeds, seeds', claims)
  /\ pc' = [pc EXCEPT ![w] = "sleep"]
  /\ UNCHANGED << count, gridfs, now, active, running, cur, idx, links_list,
                  gridfs_ref, crawled, did, ensured, fetches, clean >>
  /\ UNCHANGED << graph, resp, posted, root_of, env >>

\* fetch_via_tor returns None (or an empty body): revert_to_pending, sleep, continue.
FetchFail(w) ==
  /\ pc[w] = "claimed"
  /\ ~ExceedsMaxAttempts(cur[w].attempts)
  /\ cur[w].url[1] \in Flaky
  /\ fetches' = [fetches EXCEPT ![cur[w].url] = @ + 1]
  /\ did' = [did EXCEPT ![w] = @ \cup {"fetch"}]
  /\ seeds' = revert_to_pending(seeds, cur[w].url)
  /\ claims' = Resolved(seeds, seeds', claims)
  /\ pc' = [pc EXCEPT ![w] = "sleep"]
  /\ UNCHANGED << count, gridfs, now, active, running, cur, idx, links_list,
                  gridfs_ref, crawled, ensured, clean >>
  /\ UNCHANGED << graph, resp, posted, root_of, env >>

\* The fetch succeeds and the text is shorter than min_text_chars:
\* mark_done(url, discard_reason="too_short_content").
FetchShort(w) ==
  /\ pc[w] = "claimed"
  /\ ~ExceedsMaxAttempts(cur[w].attempts)
  /\ ~Web[cur[w].url[1]].long
  /\ fetches' = [fetches EXCEPT ![cur[w].url] = @ + 1]
  /\ did' = [did EXCEPT ![w] = @ \cup {"fetch", "short"}]
  /\ seeds' = mark_done(seeds, cur[w].url, << >>, "too_short_content")
  /\ claims' = Resolved(seeds, seeds', claims)
  /\ clean' = [clean EXCEPT ![cur[w].url] = FALSE]
  /\ pc' = [pc EXCEPT ![w] = "count"]
  /\ UNCHANGED << count, gridfs, now, active, running, cur, idx, links_list,
                  gridfs_ref, crawled, ensured >>
  /\ UNCHANGED << graph, resp, posted, root_of, env >>

\* The fetch succeeds and the text is long enough: on to sanitize_html and the store.
FetchOk(w) ==
  /\ pc[w] = "claimed"
  /\ ~ExceedsMaxAttempts(cur[w].attempts)
  /\ Web[cur[w].url[1]].long
  /\ fetches' = [fetches EXCEPT ![cur[w].url] = @ + 1]
  /\ did' = [did EXCEPT ![w] = @ \cup {"fetch"}]
  /\ pc' = [pc EXCEPT ![w] = "save"]
  /\ UNCHANGED << seeds, count, gridfs, now, active, running, cur, idx, links_list,
                  gridfs_ref, crawled, ensured, claims, clean >>
  /\ UNCHANGED << graph, resp, posted, root_of, env >>

\* save_html_to_gridfs keyed by the url: the blob stored before is replaced.
SaveOk_replace(w) ==
  /\ pc[w] = "save"
  /\ gridfs' = [gridfs EXCEPT ![cur[w].url] = 1]
  /\ gridfs_ref' = [gridfs_ref EXCEPT ![w] = <<cur[w].url[1], gridfs'[cur[w].url]>>]
  /\ crawled' = [crawled EXCEPT ![w] = now]
  /\ did' = [did EXCEPT ![w] = @ \cup {"store"}]
  /\ pc' = [pc EXCEPT ![w] = "links"]
  /\ UNCHANGED << seeds, count, now, active, running, cur, idx, links_list,
                  ensured, fetches, claims, clean >>
  /\ UNCHANGED << graph, resp, posted, root_of, env >>

\* save_html_to_gridfs returns a file id.
SaveOk(w) ==
  /\ pc[w] = "save"
  /\ gridfs' = [gridfs EXCEPT ![cur[w].url] = @ + 1]
  /\ gridfs_ref' = [gridfs_ref EXCEPT ![w] = <<cur[w].url[1], gridfs'[cur[w].url]>>]
  /\ crawled' = [crawled EXCEPT ![w] = now]
  /\ did' = [did EXCEPT ![w] = @ \cup {"store"}]
  /\ pc' = [pc EXCEPT ![w] = "links"]
  /\ UNCHANGED << seeds, count, now, active, running, cur, idx, links_list,
                  ensured, fetches, claims, clean >>
  /\ UNCHANGED << graph, resp, posted, root_of, env >>

\* save_html_to_gridfs raises: revert_to_pending, continue (without the sleep).
SaveFail(w) ==
  /\ pc[w] = "save"
  /\ cur[w].url[1] \in Flaky
  /\ seeds' = revert_to_pending(seeds, cur[w].url)
  /\ claims' = Resolved(seeds, seeds', claims)
  /\ pc' = [pc EXCEPT ![w] = "loop"]
  /\ Forget(w)
  /\ UNCHANGED << count, gridfs, now, active, running, fetches, clean >>
  /\ UNCHANGED << graph, root_of, env >>


\* One turn of "for a in raw_soup.find_all('a', href=True)": an anchor that
\* matches no onion address or leads to the page itself is passed over; for any
\* other the seed is ensured when the depth allows, and the edge recorded.
PropagateLink(w) ==
  /\ pc[w] = "links"
  /\ idx[w] <= Len(Web[cur[w].url[1]].anchors)
  /\ LET url == cur[w].url
         a == Web[url[1]].anchors[idx[w]]
         full_link == UrlJoin(url, a)
         link == Normalize(full_link)
         new_depth == cur[w].depth + 1
         origin == [parent |-> url, anchor |-> AnchorText(a)]
     IN IF ~OnionMatch(full_link) \/ IsSelfLink(link, url)
        THEN UNCHANGED << seeds, links_list, did, ensured, root_of >>
        ELSE /\ IF WithinDepth(new_depth)
                THEN /\ seeds' = ensure_seed(seeds, link, cur[w].detected, <<origin>>,
                                             new_depth, now)
                     /\ did' = [did EXCEPT ![w] = @ \cup {"ensure"}]
                     /\ ensured' = [ensured EXCEPT ![w] = @ \cup {link}]
                     /\ root_of' = IF seeds[link] = NoSeed
                                   THEN [root_of EXCEPT ![link] = root_of[url]]
                                   ELSE root_of
                ELSE UNCHANGED << seeds, did, ensured, root_of >>
             /\ links_list' = [links_list EXCEPT ![w] =
                  Append(@, LinkEdge(url, link, a, cur[w].depth, gridfs_ref[w], crawled[w]))]
  /\ idx' = [idx EXCEPT ![w] = @ + 1]
  /\ UNCHANGED << count, gridfs, now, active, pc, running, cur, gridfs_ref, crawled,
                  fetches, claims, clean >>
  /\ UNCHANGED << graph, resp, posted, env >>

\* The link loop is over.
LinksDone(w) == pc[w] = "links" /\ idx[w] > Len(Web[cur[w].url[1]].anchors)

\* matched_terms is empty: mark_done(url, discard_reason="no_matching_terms_propagated").
DiscardNoTerms(w) ==
  /\ LinksDone(w)
  /\ MatchedTerms(cur[w].url, cur[w].detected, crawled[w]) = << >>
  /\ seeds' = mark_done(seeds, cur[w].url, << >>, "no_matching_terms_propagated")
  /\ claims' = Resolved(seeds, seeds', claims)
  /\ clean' = [clean EXCEPT ![cur[w].url] = FALSE]
  /\ pc' = [pc EXCEPT ![w] = "count"]
  /\ UNCHANGED << count, gridfs, now, active, running, cur, idx, links_list,
                  gridfs_ref, crawled, did, ensured, fetches >>
  /\ UNCHANGED << graph, resp, posted, root_of, env >>

\* "for d in current_seed_detected: root = d.get("root", "")": a dict has get,
\* a str has not.
IsDict(d) == "string" \notin DOMAIN d
Extractable(detected) == \A i \in DOMAIN detected : IsDict(detected[i])

\* The payload of this iteration, built once, and what the service answers
\* to it, posted with the client's secret.
Built(w) ==
  Payload(cur[w].url, Web[cur[w].url[1]].title, crawled[w], gridfs_ref[w],
          links_list[w], cur[w].detected)

Answer(payload) ==
  ingest_page(<<NEO_INGEST_SECRET>>, <<payload>>, graph, driver, neo_up, API_SECRET, now)

\* Reverts with the answers 200 and 403 let through.
Reverts_but403(status) == status \notin {200, 403}

\* if resp is None or resp.status_code != 200; no response is the status 0.
Reverts(status) == status # 200

\* post_page_payload returns 200: mark_done(url, {html_file_id, title, ...}).
PostOk(w) ==
  /\ LinksDone(w)
  /\ MatchedTerms(cur[w].url, cur[w].detected, crawled[w]) # << >>
  /\ \E payload \in {Built(w)} : \E answer \in {Answer(payload)} :
       /\ ~Reverts(answer.status)
       /\ graph' = answer.graph
       /\ resp' = [resp EXCEPT ![w] = <<answer.status>>]
       /\ posted' = [posted EXCEPT ![w] = <<payload>>]
  /\ did' = [did EXCEPT ![w] = @ \cup {"post"}]
  /\ seeds' = mark_done(seeds, cur[w].url,
                        <<gridfs_ref[w], Web[cur[w].url[1]].title>>, "")
  /\ claims' = Resolved(seeds, seeds', claims)
  /\ clean' = [clean EXCEPT ![cur[w].url] = FALSE]
  /\ pc' = [pc EXCEPT ![w] = "count"]
  /\ UNCHANGED << count, gridfs, now, active, running, cur, idx, links_list,
                  gridfs_ref, crawled, ensured, fetches, root_of, env >>

\* post_page_payload returns None (the request raised: no connection, or no
\* answer within the timeout) or an answer other than 200:
\* revert_to_pending, sleep, continue.
PostFail(w) ==
  /\ LinksDone(w)
  /\ MatchedTerms(cur[w].url, cur[w].detected, crawled[w]) # << >>
  /\ \E payload \in {Built(w)} :
       /\ \/ /\ cur[w].url[1] \in Flaky
             /\ resp' = [resp EXCEPT ![w] = <<0>>]
             /\ graph' = graph
          \/ \E answer \in {Answer(payload)} :
               /\ Reverts(answer.status)
               /\ resp' = [resp EXCEPT ![w] = <<answer.status>>]
               /\ graph' = answer.graph
       /\ posted' = [posted EXCEPT ![w] = <<payload>>]
  /\ did' = [did EXCEPT ![w] = @ \cup {"post"}]
  /\ seeds' = revert_to_pending(seeds, cur[w].url)
  /\ claims' = Resolved(seeds, seeds', claims)
  /\ pc' = [pc EXCEPT ![w] = "sleep"]
  /\ UNCHANGED << count, gridfs, now, active, running, cur, idx, links_list,
                  gridfs_ref, crawled, ensured, fetches, clean, root_of, env >>

\* The term records are built from dicts, and the iteration goes on.
Extract(w) ==
  /\ LinksDone(w)
  /\ Extractable(cur[w].detected)
  /\ (DiscardNoTerms(w) \/ PostOk(w) \/ PostFail(w))

\* d.get raises AttributeError on an entry that is no dict: nothing in
\* start_crawling catches it, __main__ logs it and the process ends, without
\* a call of the Seed Store.
ExtractRaises(w) ==
  /\ LinksDone(w)
  /\ ~Extractable(cur[w].detected)
  /\ pc' = [pc EXCEPT ![w] = "raised"]
  /\ Forget(w)
  /\ UNCHANGED << seeds, count, gridfs, now, active, running, fetches, claims, clean >>
  /\ UNCHANGED << graph, root_of, env >>

\* new_count = get_and_inc_processed_count(); break at the page limit, else sleep.
IncCount(w) ==
  /\ pc[w] = "count"
  /\ count' = get_and_inc_processed_count(count)
  /\ pc' = [pc EXCEPT ![w] = IF count' >= max_pages_to_fetch THEN "done" ELSE "sleep"]
  /\ UNCHANGED << seeds, gridfs, now, active, running, cur, idx, links_list,
                  gridfs_ref, crawled, did, ensured, fetches, claims, clean >>
  /\ UNCHANGED << graph, resp, posted, root_of, env >>

\* time.sleep(self.sleep), then the next turn of the loop.
Sleep(w) ==
  /\ pc[w] = "sleep"
  /\ pc' = [pc EXCEPT ![w] = "loop"]
  /\ Forget(w)
  /\ UNCHANGED << seeds, count, gridfs, now, active, running, fetches, claims, clean >>
  /\ UNCHANGED << graph, root_of, env >>

(* ------------------ the ingestion service's own steps ----------------- *)

\* The service is started (again): API_SECRET is read from the environment
\* and _initialize_driver run.  The graph is Neo4j's and stays.
ServerStart ==
  /\ \E secret \in Secrets : API_SECRET' = secret
  /\ driver' = initialize_driver(neo_up)
  /\ <<API_SECRET', driver'>> # <<API_SECRET, driver>>
  /\ UNCHANGED << seeds, count, gridfs, now, active, pc, running, cur, idx, links_list,
                  gridfs_ref, crawled, did, ensured, fetches, claims, clean,
                  resp, posted, root_of, graph, neo_up, http, requests, loads, crashes,
                  upsert, extra, html, safe_html,
                  stmt, before >>

\* Neo4j stops answering; the service keeps the driver it has.
NeoDown ==
  /\ neo_up /\ neo_up' = FALSE
  /\ UNCHANGED << seeds, count, gridfs, now, active, pc, running, cur, idx, links_list,
                  gridfs_ref, crawled, did, ensured, fetches, claims, clean,
                  resp, posted, root_of, graph, driver, API_SECRET, http, requests, loads, crashes,
                  upsert, extra, html, safe_html,
                  stmt, before >>

\* Neo4j answers again.
NeoUp ==
  /\ ~neo_up /\ neo_up' = TRUE
  /\ UNCHANGED << seeds, count, gridfs, now, active, pc, running, cur, idx, links_list,
                  gridfs_ref, crawled, did, ensured, fetches, claims, clean,
                  resp, posted, root_of, graph, driver, API_SECRET, http, requests, loads, crashes,
                  upsert, extra, html, safe_html,
                  stmt, before >>

\* The link-edge rows the crawl loop collects on h0 (two anchors lead to h1)
\* and on h1, and the payloads it builds from them, crawled at t.
RowsH0(t) ==
  << LinkEdge(Url("h0"), Url("h1"), Web["h0"].anchors[2], 0, <<"h0", 1>>, t),
     LinkEdge(Url("h0"), Url("h1"), Web["h0"].anchors[4], 0, <<"h0", 1>>, t) >>

RowsH1(t) ==
  << LinkEdge(Url("h1"), Url("h2"), Web["h1"].anchors[1], 1, <<"h1", 1>>, t) >>

\* The bodies requests are made with: no JSON, the empty object, an object
\* without page, a page without url, a payload without crawl_date and without
\* links, and payloads of the crawl loop (h1 once with and once without title).
RequestBodies ==
  { << >>,
    << << >> >>,
    << [links |-> << >>] >>,
    << [page |-> [title |-> "t9", text |-> "text"]] >>,
    << [page |-> [url |-> Url("h1"), title |-> "", text |-> ""],
        matched_terms |-> MatchedTerms(Url("h1"), Terms, NoTime)] >>,
    << Payload(Url("h0"), Web["h0"].title, InitNow, <<"h0", 1>>, RowsH0(InitNow), Terms) >>,
    << Payload(Url("h1"), Web["h1"].title, InitNow + 1, <<"h1", 1>>, RowsH1(InitNow + 1),
               Terms) >>,
    << Payload(Url("h1"), "t1", InitNow + 2, <<"h1", 2>>, RowsH1(InitNow + 2), Terms) >> }

\* The X-API-KEY header: absent, the client's secret, another value.
RequestKeys == { << >>, <<NEO_INGEST_SECRET>>, <<"rotated">> }

\* POST /ingest_page, made by hand.
IngestRequest ==
  /\ requests < MaxRequests
  /\ \E key \in RequestKeys, body \in RequestBodies :
       LET r == ingest_page(key, body, graph, driver, neo_up, API_SECRET, now)
           h == [method |-> "POST", key |-> key, body |-> body, status |-> r.status]
       IN /\ graph' = r.graph
          /\ http' = h
  /\ requests' = requests + 1
  /\ UNCHANGED << seeds, count, gridfs, now, active, pc, running, cur, idx, links_list,
                  gridfs_ref, crawled, did, ensured, fetches, claims, clean,
                  resp, posted, root_of, driver, neo_up, API_SECRET, loads, crashes,
                  upsert, extra, html, safe_html,
                  stmt, before >>

\* GET /health
Health ==
  /\ requests < MaxRequests
  /\ http' = [method |-> "GET", key |-> << >>, body |-> << >>,
              status |-> health(driver, neo_up)]
  /\ requests' = requests + 1
  /\ UNCHANGED << seeds, count, gridfs, now, active, pc, running, cur, idx, links_list,
                  gridfs_ref, crawled, did, ensured, fetches, claims, clean,
                  resp, posted, root_of, graph, driver, neo_up, API_SECRET, loads, crashes,
                  upsert, extra, html, safe_html,
                  stmt, before >>

(* ------------- the upsert of a payload, statement by statement -------- *)

\* The rows of statement 2 (links) and of statement 3 (matched_terms).
Rows(payload, n) ==
  IF n = 2 THEN Get(payload, "links", << >>) ELSE Get(payload, "matched_terms", << >>)

\* "if links:", "if matched:": statement 1 is always run, the others when they
\* have rows.
Runs(payload, n) == n = 1 \/ Rows(payload, n) # << >>

\* One s.run of the session: each is a transaction of its own.
Statement(G, payload, n, t) ==
  IF n = 1 THEN [G EXCEPT !.pages = MergePage(@, Get(payload, "page", << >>), t)]
  ELSE IF n = 2 THEN MergeLinks(G, Rows(payload, 2), t)
  ELSE MergeMentions(G, Rows(payload, 3), t)

\* POST /ingest_page arrives: 403, 400, and 500 from "if not driver: raise",
\* are answered at once; otherwise the session is opened.
IngestArrives ==
  /\ stmt = 0
  /\ requests < MaxRequests
  /\ \E key \in RequestKeys, body \in RequestBodies :
       LET status == IF ~Authorized(key, API_SECRET) THEN 403
                     ELSE IF ~WellFormed(body) THEN 400
                     ELSE IF driver = NoDriver THEN 500
                     ELSE 0
       IN /\ http' = [method |-> "POST", key |-> key, body |-> body, status |-> status]
          /\ stmt' = IF status = 0 THEN 1 ELSE 0
  /\ before' = graph
  /\ requests' = requests + 1
  /\ UNCHANGED << seeds, count, gridfs, now, active, pc, running, cur, idx, links_list,
                  gridfs_ref, crawled, did, ensured, fetches, claims, clean,
                  resp, posted, root_of, graph, driver, neo_up, API_SECRET, loads, crashes,
                  upsert, extra, html, safe_html >>

\* The next statement is run and committed, or is skipped for want of rows;
\* after the third the request is answered 200.
StatementRuns ==
  /\ stmt \in 1..3
  /\ Runs(http.body[1], stmt) => neo_up
  /\ graph' = IF Runs(http.body[1], stmt)
              THEN Statement(graph, http.body[1], stmt, now)
              ELSE graph
  /\ stmt' = IF stmt = 3 THEN 0 ELSE stmt + 1
  /\ http' = IF stmt = 3 THEN [http EXCEPT !.status = 200] ELSE http
  /\ UNCHANGED << seeds, count, gridfs, now, active, pc, running, cur, idx, links_list,
                  gridfs_ref, crawled, did, ensured, fetches, claims, clean,
                  resp, posted, root_of, driver, neo_up, API_SECRET, requests, loads,
                  crashes, upsert, extra, html, safe_html, before >>

\* The next statement raises because Neo4j does not answer: "except Exception"
\* answers 500.
StatementRaises ==
  /\ stmt \in 1..3
  /\ Runs(http.body[1], stmt)
  /\ ~neo_up
  /\ http' = [http EXCEPT !.status = 500]
  /\ stmt' = 0
  /\ UNCHANGED << seeds, count, gridfs, now, active, pc, running, cur, idx, links_list,
                  gridfs_ref, crawled, did, ensured, fetches, claims, clean,
                  resp, posted, root_of, graph, driver, neo_up, API_SECRET, requests,
                  loads, crashes, upsert, extra, html, safe_html, before >>

(* --------------------------- the seed loader -------------------------- *)

\* Seed files as the scraper writes them: one names hx and holds a record
\* without url; the other names h4 without detected and h3 with terms.
SeedFiles ==
  { << [host |-> "hx", url |-> Url("hx"), detected |-> Terms],
       [host |-> "h9", detected |-> Terms] >>,
    << [host |-> "h4", url |-> Url("h4")],
       [host |-> "h3", url |-> Url("h3"), detected |-> Terms] >> }

\* The loader is run on a seed file while the crawler works.
LoadSeeds ==
  /\ loads < MaxLoads
  /\ \E file \in SeedFiles : seeds' = load_seeds_bulk(seeds, file, now)
  /\ loads' = loads + 1
  /\ claims' = Resolved(seeds, seeds', claims)
  /\ root_of' = [u \in Urls |-> IF seeds[u] = NoSeed /\ seeds'[u] # NoSeed
                                 THEN u ELSE root_of[u]]
  /\ UNCHANGED << count, gridfs, now, active, pc, running, cur, idx, links_list,
                  gridfs_ref, crawled, did, ensured, fetches, clean,
                  resp, posted, graph, driver, neo_up, API_SECRET, http, requests, crashes,
                  upsert, extra, html, safe_html,
                  stmt, before >>

(* ---------------------- documents to sanitize ------------------------- *)

\* Attribute names.
ONCLICK == << "o", "n", "c", "l", "i", "c", "k" >>
ONLOAD == << "O", "n", "L", "o", "a", "d" >>
HREF == << "h", "r", "e", "f" >>
SRC == << "S", "R", "C" >>
SRCSET == << "s", "r", "c", "s", "e", "t" >>
STYLE == << "s", "t", "y", "l", "e" >>
DATA == << "d", "a", "t", "a" >>
DATA_ID == << "d", "a", "t", "a", "-", "i", "d" >>
CLASS == << "c", "l", "a", "s", "s" >>
None == << >>

\* The elements and texts without children a document is made of.
Leaves ==
  { Text("words") }
  \cup { Elem(t, None, << >>) : t \in Range(DangerousTags) }
  \cup { Elem("img", (ALT :> "cat") @@ (SRC :> "u"), << >>),
         Elem("img", (SRCSET :> "u"), << >>),
         Elem("a", (HREF :> "u"), << >>),
         Elem("meta", (HTTP_EQUIV :> "Refresh"), << >>),
         Elem("meta", (HTTP_EQUIV :> "content-type"), << >>),
         Elem("p", (CLASS :> "c") @@ (DATA_ID :> "7"), << >>),
         Elem("p", (ONLOAD :> "js") @@ (STYLE :> "css") @@ (SRC :> "u"), << >>),
         Elem("p", (DATA :> "u") @@ (ONCLICK :> "js"), << >>) }

\* The elements that hold others: an anchor, a paragraph, a form.
Holders ==
  { [tag |-> "a", attrs |-> (HREF :> "u") @@ (ONCLICK :> "js")],
    [tag |-> "p", attrs |-> (STYLE :> "css") @@ (CLASS :> "c")],
    [tag |-> "form", attrs |-> None] }

\* What follows an element among its siblings: nothing, a text, an image, an anchor.
Followers ==
  { << >>, << Text("more") >>, << Elem("img", None, << >>) >>,
    << Elem("a", (HREF :> "u"), << Text("link") >>) >> }

\* The trees with at most n elements inside one another: the innermost holder
\* holds a leaf and what follows it, the others one tree.
RECURSIVE Trees(_)
Trees(n) ==
  IF n = 0 THEN Leaves
  ELSE IF n = 1
  THEN Leaves \cup { Elem(h.tag, h.attrs, << k >> \o f) :
                       h \in Holders, k \in Leaves, f \in Followers }
  ELSE Trees(n - 1)
       \cup { Elem(h.tag, h.attrs, << k >>) : h \in Holders, k \in Trees(n - 1) }

\* The soup of a page: html with a head (a refreshing meta, a script) and a
\* body with an onload attribute; and the soup of a fragment without body.
Page(kids) ==
  Elem("[document]", None,
       << Elem("html", None,
               << Elem("head", None, << Elem("meta", (HTTP_EQUIV :> "refresh"), << >>),
                                        Elem("script", None, << Text("js") >>) >>),
                  Elem("body", (ONLOAD :> "js") @@ (CLASS :> "c"), kids) >>) >>)

Fragment(kids) == Elem("[document]", None, kids)

Documents ==
  { Page(<< t >> \o f) : t \in Trees(MaxNesting), f \in Followers }
  \cup { Fragment(<< t >> \o f) : t \in Trees(MaxNesting), f \in Followers }

\* safe_html = self.sanitize_html(html)
Sanitize ==
  /\ html # << >> /\ safe_html = << >>
  /\ safe_html' = << sanitize_html(html) >>
  /\ UNCHANGED << seeds, count, gridfs, now, active, pc, running, cur, idx, links_list,
                  gridfs_ref, crawled, did, ensured, fetches, claims, clean,
                  resp, posted, root_of, graph, driver, neo_up, API_SECRET, http,
                  requests, loads, crashes, upsert, extra, html,
                  stmt, before >>

(* ---------------- upserts of one url by several clients --------------- *)

\* The upserts clients make: ensure_seed as the crawl loop calls it for a link
\* found on h0 or on hy, and the UpdateOne of load_seeds_bulk for a record.
UpsertCalls ==
  { [op |-> "ensure", url |-> Url(h), detected |-> Terms, depth |-> 1,
     origin |-> << [parent |-> Url(par), anchor |-> "one"] >>] :
       h \in {"h1", "h2"}, par \in {"h0", "hy"} }
  \cup { [op |-> "load", url |-> Url("h1"), detected |-> NoTerms, depth |-> 0,
          origin |-> << >>] }

\* What the call writes when the collection is S.
Upserted(S, call, t) ==
  IF call.op = "ensure"
  THEN ensure_seed(S, call.url, call.detected, call.origin, call.depth, t)
  ELSE LoadOne(S, [url |-> call.url, detected |-> call.detected], t)

\* update_one({"url": url}, ..., upsert=True), first half: the filter is
\* matched against the collection.
UpsertQuery(c) ==
  /\ upsert[c] = << >>
  /\ \E call \in UpsertCalls :
       upsert' = [upsert EXCEPT ![c] =
                    << [call |-> call, matched |-> seeds[call.url] # NoSeed] >>]
  /\ UNCHANGED << seeds, count, gridfs, now, active, pc, running, cur, idx, links_list,
                  gridfs_ref, crawled, did, ensured, fetches, claims, clean,
                  resp, posted, root_of, graph, driver, neo_up, API_SECRET, http,
                  requests, loads, crashes, extra, html, safe_html,
                  stmt, before >>

\* ... second half: the matched document is updated, or one is inserted.  The
\* seeds collection has no unique index on url (MongoController.__init__
\* creates none): an insert is not refused when another client has inserted a
\* document with the url since the query, and the collection then holds two.
UpsertWrite(c) ==
  /\ upsert[c] # << >>
  /\ LET call == upsert[c][1].call
     IN IF upsert[c][1].matched \/ seeds[call.url] = NoSeed
        THEN /\ seeds' = Upserted(seeds, call, now)
             /\ extra' = extra
        ELSE /\ seeds' = seeds
             /\ extra' = [extra EXCEPT ![call.url] = @ + 1]
  /\ upsert' = [upsert EXCEPT ![c] = << >>]
  /\ UNCHANGED << count, gridfs, now, active, pc, running, cur, idx, links_list,
                  gridfs_ref, crawled, did, ensured, fetches, claims, clean,
                  resp, posted, root_of, graph, driver, neo_up, API_SECRET, http,
                  requests, loads, crashes, html, safe_html,
                  stmt, before >>

\* One step of worker w's start_crawling while it is not interrupted ...
Work(w) ==
  \/ Start(w) \/ PopSeed(w) \/ PopEmpty(w)
  \/ MarkFailedMax(w) \/ FetchFail(w) \/ FetchShort(w) \/ FetchOk(w)
  \/ SaveOk(w) \/ SaveFail(w) \/ PropagateLink(w)
  \/ DiscardNoTerms(w) \/ PostOk(w) \/ PostFail(w) \/ IncCount(w) \/ Sleep(w)

\* ... and with the interrupt and the way out of the loop.
Next == Tick \/ \E w \in Workers : Work(w) \/ Sigint(w) \/ LoopExit(w)

Spec == Init /\ [][Next]_vars

\* One step of an iteration once pop_next_seed has returned.
Iterate(w) ==
  \/ MarkFailedMax(w) \/ FetchFail(w) \/ FetchShort(w) \/ FetchOk(w)
  \/ SaveOk(w) \/ SaveFail(w) \/ PropagateLink(w)
  \/ DiscardNoTerms(w) \/ PostOk(w) \/ PostFail(w) \/ IncCount(w) \/ Sleep(w)

\* One step of worker w with the head of the loop taken apart.
Turn(w) ==
  Start(w) \/ LoopTurn(w) \/ TurnPopSeed(w) \/ TurnPopEmpty(w) \/ Iterate(w) \/ LoopExit(w)

\* One worker that takes its steps and is interrupted at any point, between
\* the test of the loop and pop_next_seed too.
SignalNext == Tick \/ Sigint(1) \/ Turn(1)

SpecSignal == Init /\ [][SignalNext]_vars /\ WF_vars(Turn(1))

\* One worker on a store with a seed whose detected is a list of strings.
InitErrors ==
  /\ InitWorkers
  /\ InitEnv
  /\ active = {1}
  /\ InitStore([u \in Urls |->
         CASE u = Url("h0") -> Seed("pending", 0, 0, Terms, 10, NoTime)
           [] u = Url("h3") -> Seed("pending", 0, 0, Strings, 20, NoTime)
           [] u = Url("hx") -> Seed("pending", 0, 0, Terms, 3, NoTime)
           [] u = Url("hy") -> Seed("pending", 0, 0, NoTerms, 5, NoTime)
           [] OTHER -> NoSeed])

ErrorsNext ==
  \/ Start(1) \/ PopSeed(1) \/ PopEmpty(1)
  \/ MarkFailedMax(1) \/ FetchFail(1) \/ FetchShort(1) \/ FetchOk(1)
  \/ SaveOk(1) \/ SaveFail(1) \/ PropagateLink(1)
  \/ Extract(1) \/ ExtractRaises(1) \/ IncCount(1) \/ Sleep(1)

SpecErrors == InitErrors /\ [][ErrorsNext]_vars

\* The steps without the interrupt.
LiveNext == Tick \/ \E w \in Workers : Work(w)

\* Two workers on one store, neither interrupted.
SpecMulti == InitMulti /\ [][LiveNext]_vars

\* One worker on a store that holds hz, whose page links to a redirector on
\* the clear web.
InitLinks ==
  /\ InitWorkers
  /\ InitEnv
  /\ active = {1}
  /\ InitStore([u \in Urls |->
         CASE u = Url("hz") -> Seed("pending", 0, 0, Terms, 10, NoTime)
           [] u = Url("hy") -> Seed("pending", 0, 0, NoTerms, 20, NoTime)
           [] u = Url("hx") -> Seed("pending", 0, 0, Terms, 30, NoTime)
           [] u = Url("h3") -> Seed("pending", 0, max_depth, Terms, 40, NoTime)
           [] OTHER -> NoSeed])

SpecLinks == InitLinks /\ [][LiveNext]_vars

\* One worker on a store that load_seeds_bulk filled: h0 and hy from one seed
\* file, with the one created_at the loader stamps on every record of a file,
\* and hx from a file loaded later.
InitFile ==
  /\ InitWorkers
  /\ InitEnv
  /\ active = {1}
  /\ InitStore([u \in Urls |->
         CASE u = Url("h0") -> Seed("pending", 0, 0, Terms, 10, NoTime)
           [] u = Url("hy") -> Seed("pending", 0, 0, NoTerms, 10, NoTime)
           [] u = Url("hx") -> Seed("pending", 0, 0, Terms, 20, NoTime)
           [] OTHER -> NoSeed])

SpecFile == InitFile /\ [][LiveNext]_vars


\* The ingestion service alone, with requests made by hand: no crawl worker runs.
InitService ==
  /\ InitWorkers
  /\ InitEnv
  /\ active = {}
  /\ InitStore([u \in Urls |-> NoSeed])

ServiceNext == ServerStart \/ NeoDown \/ NeoUp \/ IngestRequest \/ Health

SpecService == InitService /\ [][ServiceNext]_vars

\* The ingestion service with its upsert taken apart into statements, Neo4j
\* going away and coming back in between: no crawl worker runs.
InitStatements ==
  /\ InitWorkers
  /\ InitEnv
  /\ active = {}
  /\ InitStore([u \in Urls |-> NoSeed])

StatementsNext == IngestArrives \/ StatementRuns \/ StatementRaises \/ NeoDown \/ NeoUp

SpecStatements == InitStatements /\ [][StatementsNext]_vars

\* Two clients that upsert seeds into an empty collection: no crawl worker runs.
InitUpsert ==
  /\ InitWorkers
  /\ InitEnv
  /\ active = {}
  /\ InitStore([u \in Urls |-> NoSeed])

UpsertNext == \E c \in Workers : UpsertQuery(c) \/ UpsertWrite(c)

SpecUpsert == InitUpsert /\ [][UpsertNext]_vars

\* The sanitizer alone, given a document: no crawl worker runs.
InitSanitize ==
  /\ InitWorkers
  /\ InitBackend
  /\ active = {}
  /\ InitStore([u \in Urls |-> NoSeed])
  /\ html \in Documents
  /\ safe_html = << >>

SpecSanitize == InitSanitize /\ [][Sanitize]_vars

\* One worker on a store an earlier run left (h4 loaded with terms and not yet
\* claimed, h3 found at depth 3 by a chain whose terms have no synonym), while the seed
\* loader is run and the ingestion service and Neo4j are stopped and started.
InitOps ==
  /\ InitWorkers
  /\ InitEnv
  /\ active = {1}
  /\ InitStore([u \in Urls |->
         CASE u = Url("h4") -> Seed("pending", 0, 0, TwoTerms, 10, NoTime)
           [] u = Url("h3") -> Seed("pending", 0, max_depth, NoSynonyms, 20, NoTime)
           [] OTHER -> NoSeed])

\* The crawl loop meets the service at the POST alone: the service and Neo4j
\* are stopped and started while a worker is about to post.
Outage ==
  /\ \E w \in active : LinksDone(w)
  /\ (ServerStart \/ NeoDown \/ NeoUp)

OpsNext == LiveNext \/ LoadSeeds \/ Outage

SpecOps == InitOps /\ [][OpsNext]_vars

\* One worker that is not interrupted and keeps taking its next step.
LiveSpec == InitLive /\ [][LiveNext]_vars /\ WF_vars(Work(1))


\* One worker that may die in the middle of an iteration and be run again, on
\* a store an earlier run left: hx abandoned in_progress just now, h3 and h4
\* found at depth 3.
InitCrash ==
  /\ InitWorkers
  /\ InitEnv
  /\ active = {1}
  /\ InitStore([u \in Urls |->
         CASE u = Url("hx") -> Seed("in_progress", 1, 0, Terms, 5, InitNow)
           [] u = Url("h3") -> Seed("pending", 0, max_depth, Terms, 10, NoTime)
           [] u = Url("h4") -> Seed("pending", 0, max_depth, NoSynonyms, 20, NoTime)
           [] OTHER -> NoSeed])

CrashNext == Elapse \/ Crash(1) \/ Work(1)

\* While it lives, the worker keeps taking its next step.
SpecCrash == InitCrash /\ [][CrashNext]_vars /\ WF_vars(Work(1))

(* ======================= the claims, one worker ======================= *)

\* The edges of the status graph; a document appears as pending.
StatusEdges ==
  { <<"pending", "in_progress">>, <<"in_progress", "ingested">>,
    <<"in_progress", "discarded">>, <<"in_progress", "pending">>,
    <<"in_progress", "failed_perm">>, <<"pending", "failed_perm">>,
    <<"absent", "pending">> }

\* C1: with one crawl worker, every seed's status is one of pending,
\* in_progress, ingested, discarded, failed_perm, and every step that changes a
\* seed's status follows an edge of the status graph; no step leaves ingested,
\* discarded or failed_perm.
C1_StatusGraph ==
  [][\A u \in Urls :
       /\ seeds'[u] # NoSeed => seeds'[u].status \in Statuses
       /\ seeds'[u].status # seeds[u].status
            => <<seeds[u].status, seeds'[u].status>> \in StatusEdges]_vars

\* A run that ended seeds in each of the three terminal statuses.
C1_Witness ==
  /\ \E u \in Urls : seeds[u].status = "ingested" /\ Len(seeds[u].origins) > 0
  /\ \E u \in Urls : seeds[u].status = "discarded"
  /\ \E u \in Urls : seeds[u].status = "failed_perm"

\* C4: a seed claimed with attempts > max_attempts is marked failed_perm with
\* reason max_attempts_reached, and the iteration fetches nothing, stores no
\* snapshot, ensures no seed, records no link and posts nothing.
C4_NoWorkPastMax ==
  \A w \in Workers :
    (cur[w] # NoCur /\ cur[w].attempts > max_attempts /\ pc[w] # "claimed")
      => /\ seeds[cur[w].url].status = "failed_perm"
         /\ seeds[cur[w].url].failed_reason = "max_attempts_reached"
         /\ did[w] = {} /\ ensured[w] = {}
         /\ links_list[w] = << >> /\ gridfs_ref[w] = << >>
         /\ pc[w] \in {"sleep", "loop", "done"}

C4_Witness ==
  \E w \in Workers : cur[w].attempts > max_attempts /\ pc[w] = "sleep"

\* C5: no seed is fetched more than max_attempts times; a seed whose every
\* attempt ended in a retryable failure is pending again after each attempt with
\* as many fetches as attempts, and once it is failed_perm it was fetched exactly
\* max_attempts times, claimed max_attempts + 1 times, and carries the reason
\* max_attempts_reached.
C5_BoundedRetries ==
  \A u \in Present(seeds) :
    /\ fetches[u] <= max_attempts
    /\ clean[u] =>
         /\ seeds[u].status \in {"pending", "in_progress", "failed_perm"}
         /\ seeds[u].status = "pending"
              => fetches[u] = seeds[u].attempts /\ seeds[u].attempts <= max_attempts
         /\ seeds[u].status = "failed_perm"
              => /\ fetches[u] = max_attempts
                 /\ seeds[u].attempts = max_attempts + 1
                 /\ seeds[u].failed_reason = "max_attempts_reached"

C5_Witness ==
  \E u \in Urls : clean[u] /\ seeds[u].status = "failed_perm" /\ fetches[u] = max_attempts

\* C7: the reset at a worker's start changes only the in_progress seeds whose
\* last_try is older than the reclaim window, and of those only the status, to
\* pending; every other seed is left as it was; a second reset at once changes
\* nothing.
C7_ResetFrame ==
  [][(\E w \in Workers : pc[w] = "off" /\ pc'[w] # "off") =>
       /\ \A u \in Urls :
            IF /\ seeds[u].status = "in_progress"
               /\ seeds[u].last_try < now - RESET_INPROGRESS_OLDER_MIN
            THEN seeds'[u] = [seeds[u] EXCEPT !.status = "pending"]
            ELSE seeds'[u] = seeds[u]
       /\ reset_stale_inprogress(seeds', now') = seeds']_vars

\* Right after a start whose reset reclaimed a seed.
C7_Witness ==
  /\ \A w \in active : pc[w] = "loop" /\ cur[w] = NoCur
  /\ \E u \in Urls : seeds[u].status = "pending" /\ seeds[u].last_try # NoTime


\* Origins and arguments ensure_seed is tried with in every reachable store.
TestOrigins ==
  { [parent |-> Url("h0"), anchor |-> "one"], [parent |-> Url("h2"), anchor |-> "home"] }

NoDuplicates(arr) == Cardinality(Range(arr)) = Len(arr)

\* C8: ensure_seed is upsert-if-absent.  In every reachable store, for every
\* url: if the url is absent the call inserts a pending seed with attempts 0, the
\* given depth and detected and the origin; if it is present, in any status, the
\* call changes nothing but origins, which gains the origin unless it holds it;
\* no other seed changes; the same call made twice stores the origin once; and
\* no seed's origins ever holds an origin twice.
C8_EnsureUpsert ==
  /\ \A u \in Present(seeds) : NoDuplicates(seeds[u].origins)
  /\ \A url \in Urls, a \in {<<Terms, 1>>, <<NoTerms, max_depth>>}, o \in TestOrigins :
       LET det == a[1]
           depth == a[2]
           T == ensure_seed(seeds, url, det, <<o>>, depth, now)
       IN /\ \A v \in Urls \ {url} : T[v] = seeds[v]
          /\ IF seeds[url] = NoSeed
             THEN /\ T[url].status = "pending" /\ T[url].attempts = 0
                  /\ T[url].depth = depth /\ T[url].detected = det
                  /\ T[url].origins = <<o>>
             ELSE /\ T[url] = [seeds[url] EXCEPT !.origins = T[url].origins]
                  /\ Range(T[url].origins) = Range(seeds[url].origins) \cup {o}
                  /\ NoDuplicates(T[url].origins)
          /\ ensure_seed(T, url, det, <<o>>, depth, now) = T

\* A loaded seed, already resolved, that a later page linked to; and h1, which
\* h0 names in two anchors with the same text, after h0 was processed twice.
C8_Witness ==
  /\ \E u \in Urls : /\ seeds[u].status \in Terminal /\ seeds[u].depth = 0
                     /\ Len(seeds[u].origins) > 0
  /\ seeds[Url("h1")] # NoSeed /\ Len(seeds[Url("h1")].origins) = 1
  /\ seeds[Url("h0")].attempts > 1

\* The anchors among the first n of the page at url that match an onion address
\* and do not lead to the page itself.
Propagated(url, n) ==
  {j \in 1..n : LET full_link == UrlJoin(url, Web[url[1]].anchors[j])
                IN full_link[1] \in OnionHosts /\ <<full_link[1], "/">> # url}

Target(url, j) == <<UrlJoin(url, Web[url[1]].anchors[j])[1], "/">>

\* C9: every seed in the store has depth <= max_depth; in an iteration that got
\* to the link loop, ensure_seed was called for the matched non-self links when
\* the seed's depth + 1 <= max_depth and for none otherwise, while a link-edge
\* record with the seed's depth was collected for every one of them either way.
C9_DepthBound ==
  /\ \A u \in Present(seeds) : seeds[u].depth <= max_depth
  /\ \A w \in Workers :
       "store" \in did[w] =>
         LET url == cur[w].url
             M == Propagated(url, idx[w] - 1)
         IN /\ Len(links_list[w]) = Cardinality(M)
            /\ {e.dst_url : e \in Range(links_list[w])} = {Target(url, j) : j \in M}
            /\ \A e \in Range(links_list[w]) : e.src_url = url /\ e.depth = cur[w].depth
            /\ ensured[w] = IF cur[w].depth + 1 <= max_depth
                            THEN {Target(url, j) : j \in M} ELSE {}

\* A seed at max_depth whose links were recorded and not enqueued.
C9_Witness ==
  \E w \in Workers :
    /\ cur[w].depth = max_depth /\ pc[w] = "count"
    /\ links_list[w] # << >> /\ ensured[w] = {}
    /\ \E e \in Range(links_list[w]) : seeds[e.dst_url] = NoSeed

\* C10: ensure_seed is never called with the url of the seed being processed,
\* and no seed has an origin whose parent is the seed itself.
C10_NoSelfPropagation ==
  /\ \A w \in Workers : cur[w] # NoCur => cur[w].url \notin ensured[w]
  /\ \A u \in Present(seeds) : \A o \in Range(seeds[u].origins) : o.parent # u

\* The link loop has gone past an anchor that leads to the page itself.
C10_Witness ==
  \E w \in Workers :
    /\ pc[w] = "links"
    /\ \E j \in 1..(idx[w] - 1) : Target(cur[w].url, j) = cur[w].url


\* C11: a seed inserted by the link loop gets the detected of the seed being
\* processed, as that seed has it in the store, and its depth + 1; no later
\* step, a rediscovery by a page with another detected included, changes the
\* detected or the depth of a seed; so every seed has the detected of the
\* depth-0 seed at the root of the chain of discoveries that inserted it.
C11_DetectedInherited ==
  /\ [](\A u \in Present(seeds) :
          /\ root_of[u] \in Present(seeds)
          /\ seeds[root_of[u]].depth = 0
          /\ seeds[u].detected = seeds[root_of[u]].detected)
  /\ [][\A u \in Urls :
         /\ (seeds[u] = NoSeed /\ seeds'[u] # NoSeed) =>
              \E w \in Workers :
                /\ pc[w] = "links"
                /\ cur[w].detected = seeds[cur[w].url].detected
                /\ seeds'[u].detected = cur[w].detected
                /\ seeds'[u].depth = cur[w].depth + 1
         /\ seeds[u] # NoSeed =>
              /\ seeds'[u].detected = seeds[u].detected
              /\ seeds'[u].depth = seeds[u].depth]_vars

\* h0, loaded with terms, was found again by hy, which has none; and the
\* chain h0 started is three seeds long.
C11_Witness ==
  /\ \E o \in Range(seeds[Url("h0")].origins) : o.parent = Url("hy")
  /\ seeds[Url("hy")].detected # seeds[Url("h0")].detected
  /\ \E u \in Present(seeds) :
       seeds[u].depth = 3 /\ root_of[u] = Url("h0") /\ seeds[u].detected = Terms

\* C13: an iteration whose fetch returned a text shorter than min_text_chars
\* leaves the seed discarded with the reason too_short_content, and has
\* stored no snapshot, ensured no seed, recorded no link and posted nothing;
\* and no later step changes the status or the attempts of a seed discarded
\* for that reason, or fetches it again.
C13_ShortDiscarded ==
  /\ [](\A w \in Workers :
          "short" \in did[w] =>
            /\ seeds[cur[w].url].status = "discarded"
            /\ seeds[cur[w].url].discard_reason = "too_short_content"
            /\ did[w] = {"fetch", "short"} /\ ensured[w] = {}
            /\ links_list[w] = << >> /\ gridfs_ref[w] = << >> /\ resp[w] = << >>
            /\ pc[w] \in {"count", "sleep", "done"})
  /\ [][\A u \in Urls :
         /\ seeds[u].status = "discarded" /\ seeds[u].discard_reason = "too_short_content"
              => /\ seeds'[u].status = "discarded"
                 /\ seeds'[u].attempts = seeds[u].attempts
                 /\ fetches'[u] = fetches[u]
         /\ (\E w \in Workers : "short" \in did'[w] /\ "short" \notin did[w])
              => gridfs' = gridfs /\ graph' = graph
                 /\ Present(seeds') = Present(seeds)]_vars

\* hx was found too short on its second attempt, counted, and the loop went on
\* to other seeds.
C13_Witness ==
  /\ seeds[Url("hx")].status = "discarded" /\ seeds[Url("hx")].attempts = 2
  /\ gridfs[Url("hx")] = 0 /\ count >= 2
  /\ \E w \in Workers : pc[w] = "claimed" /\ cur[w].url # Url("hx")

(* ======= the claims, one worker beside the loader and the service ===== *)

\* detected is empty or absent, or none of its entries has a synonym.
NoSynonymIn(detected) == \A i \in 1..Len(detected) : detected[i].synonyms = << >>

\* The seed worker w claimed is discarded for want of terms by this step, and
\* nothing was posted for it.
DiscardedNoTerms(w) ==
  /\ seeds'[cur[w].url].status = "discarded"
  /\ seeds'[cur[w].url].discard_reason = "no_matching_terms_propagated"
  /\ "post" \notin did'[w] /\ resp'[w] = << >> /\ posted'[w] = << >>
  /\ graph' = graph
  /\ pc'[w] = "count"

SynonymPairs(detected) ==
  UNION { {<<i, j>> : j \in 1..Len(detected[i].synonyms)} : i \in 1..Len(detected) }

\* C15: the step in which the ingestion POST is answered 200 posted a payload
\* whose matched_terms holds, for every (entry, synonym) pair of the detected
\* the seed was claimed with, a record with the page url, the root, the
\* synonym and the source ahmia, as many records as pairs and none for
\* anything else; and it leaves the seed ingested and goes on to the counter.
C15_MatchedTermsOnSuccess ==
  [][\A w \in Workers :
       (resp[w] = << >> /\ resp'[w] = <<200>>) =>
         LET m == posted'[w][1].matched_terms
             det == cur[w].detected
         IN /\ Len(m) = Cardinality(SynonymPairs(det))
            /\ \A x \in SynonymPairs(det) :
                 \E k \in 1..Len(m) :
                   /\ m[k].root = det[x[1]].root
                   /\ m[k].synonym = det[x[1]].synonyms[x[2]]
            /\ \A k \in 1..Len(m) :
                 /\ m[k].page_url = cur[w].url /\ m[k].source = "ahmia"
                 /\ \E x \in SynonymPairs(det) :
                      /\ m[k].root = det[x[1]].root
                      /\ m[k].synonym = det[x[1]].synonyms[x[2]]
            /\ seeds'[cur[w].url].status = "ingested"
            /\ pc'[w] = "count"]_vars

\* h4, claimed with two roots and three synonyms, was posted and answered 200.
C15_Witness ==
  \E w \in Workers :
    /\ resp[w] = <<200>> /\ cur[w].detected = TwoTerms
    /\ Len(posted[w][1].matched_terms) = 3
    /\ seeds[cur[w].url].status = "ingested"

\* C18: whatever post_page_payload returns other than an answer 200 (nothing,
\* 403, 500; 400 and any other status alike), the step reverts the seed to
\* pending, does not mark it ingested, leaves the counter alone and goes to the
\* sleep before the next claim; the counter is reached only without a POST or
\* after an answer 200.
C18_NonSuccessReverts ==
  /\ [](/\ \A status \in {0, 400, 403, 404, 500, 503} : Reverts(status)
        /\ \A w \in Workers : pc[w] = "count" => resp[w] \in {<< >>, <<200>>})
  /\ [][\A w \in Workers :
         (resp[w] = << >> /\ resp'[w] \notin {<< >>, <<200>>}) =>
           /\ seeds'[cur[w].url].status = "pending"
           /\ seeds'[cur[w].url] = [seeds[cur[w].url] EXCEPT !.status = "pending"]
           /\ count' = count
           /\ pc'[w] = "sleep"]_vars

\* The POST for h4 was answered 500 on its third attempt, after two that
\* failed; the graph holds nothing.
C18_Witness ==
  \E w \in Workers :
    /\ resp[w] = <<500>> /\ pc[w] = "sleep" /\ cur[w].attempts = 3
    /\ seeds[cur[w].url].status = "pending"
    /\ graph = EmptyGraph /\ count = 0

\* C19: after the service answered 403 the seed is not put back to pending.
C19_AuthFailureNotRetried ==
  [][\A w \in Workers :
       (resp[w] = << >> /\ resp'[w] = <<403>>) =>
         seeds'[cur[w].url].status # "pending"]_vars

\* C17: a load of the seed file leaves status, depth and attempts of every
\* seed the store holds as they were, and inserts the absent urls as pending
\* at depth 0.
C17_LoadNeverDowngrades ==
  [][loads' # loads =>
       \A u \in Urls :
         IF seeds[u] # NoSeed
         THEN /\ seeds'[u].status = seeds[u].status
              /\ seeds'[u].depth = seeds[u].depth
              /\ seeds'[u].attempts = seeds[u].attempts
         ELSE seeds'[u] # NoSeed =>
                seeds'[u].status = "pending" /\ seeds'[u].depth = 0]_vars

(* ================== the claims, the ingestion service ================= *)

\* A step that answers 200 to the payload the request before was answered 200
\* for, the payload being one whose page has a url.
Replay ==
  /\ requests' = requests + 1
  /\ http.method = "POST" /\ http.status = 200
  /\ http'.method = "POST" /\ http'.status = 200
  /\ http'.body = http.body
  /\ "url" \in DOMAIN http.body[1].page

LinkKey(r) == <<r.src_url, r.dst_url>>
MentionKey(r) == <<r.page_url, r.synonym, r.source, r.root>>

\* The number of rows that name the edge k.
RowsNaming(rows, k, Key(_)) == Cardinality({i \in 1..Len(rows) : Key(rows[i]) = k})

\* What a second post of a payload leaves of everything but the page of the
\* payload and the counts: no node and no edge more, the other pages, the
\* terms and the synonyms as they were.
NothingNew(G1, G2, url) ==
  /\ DOMAIN G2.pages = DOMAIN G1.pages
  /\ \A u \in DOMAIN G1.pages \ {url} : G2.pages[u] = G1.pages[u]
  /\ G2.terms = G1.terms /\ G2.synonyms = G1.synonyms
  /\ G2.is_synonym_of = G1.is_synonym_of
  /\ DOMAIN G2.links = DOMAIN G1.links
  /\ DOMAIN G2.mentions = DOMAIN G1.mentions

\* C12 as stated: a second post of the same payload leaves the Page as the
\* first post left it, adds no node and no edge, and raises the count of every
\* LINKS_TO and MENTIONS edge the payload names by exactly 1.
C12_ReplayAddsOne ==
  [][Replay =>
       LET payload == http.body[1]
           url == Get(payload.page, "url", NoUrl)
           links == Get(payload, "links", << >>)
           matched == Get(payload, "matched_terms", << >>)
       IN /\ NothingNew(graph, graph', url)
          /\ graph'.pages[url] = graph.pages[url]
          /\ \A k \in DOMAIN graph.links :
               graph'.links[k].count =
                 graph.links[k].count + IF RowsNaming(links, k, LinkKey) > 0 THEN 1 ELSE 0
          /\ \A k \in DOMAIN graph.mentions :
               graph'.mentions[k].count =
                 graph.mentions[k].count
                   + IF RowsNaming(matched, k, MentionKey) > 0 THEN 1 ELSE 0]_vars

\* C12, amended: a second post of the same payload leaves title, text, host,
\* has_html_content and first_seen of the Page as the first post left them and
\* sets its updated_at to the crawl_date of the payload; it adds no node and no
\* edge; and it raises the count of every LINKS_TO and MENTIONS edge by the
\* number of rows of the payload that name the edge, which is 1 for an edge
\* named once; an edge the payload does not name keeps its count.
C12_ReplayAddsRows ==
  [][Replay =>
       LET payload == http.body[1]
           url == Get(payload.page, "url", NoUrl)
           links == Get(payload, "links", << >>)
           matched == Get(payload, "matched_terms", << >>)
       IN /\ NothingNew(graph, graph', url)
          /\ graph'.pages[url] =
               [graph.pages[url] EXCEPT
                  !.updated_at = coalesce(Get(payload.page, "crawl_date", NoTime), now)]
          /\ \A k \in DOMAIN graph.links :
               graph'.links[k].count =
                 graph.links[k].count + RowsNaming(links, k, LinkKey)
          /\ \A k \in DOMAIN graph.mentions :
               graph'.mentions[k].count =
                 graph.mentions[k].count + RowsNaming(matched, k, MentionKey)]_vars

\* The payload of h0, whose two link rows name the edge to h1, was posted
\* twice and nothing else: the edge was counted four times.
C12_Witness ==
  /\ http.method = "POST" /\ http.status = 200
  /\ Get(http.body[1].page, "url", NoUrl) = Url("h0")
  /\ <<Url("h0"), Url("h1")>> \in DOMAIN graph.links
  /\ graph.links[<<Url("h0"), Url("h1")>>].count = 4
  /\ graph.pages[Url("h0")].updated_at # NoTime
  /\ requests = 2

\* C16: a POST /ingest_page whose X-API-KEY is missing or is not the secret is
\* answered 403 and leaves the graph as it was, whatever the body; with the
\* right key, a body that is no JSON object, or lacks page, or whose page lacks
\* url is answered 400 and leaves the graph as it was; the graph changes only
\* for a request with the right key and a page with a url.
C16_RejectBeforeWrite ==
  [][(requests' = requests + 1 /\ http'.method = "POST") =>
       LET body == http'.body
           authentic == http'.key = <<API_SECRET>>
           formed == /\ body # << >> /\ "page" \in DOMAIN body[1]
                     /\ "url" \in DOMAIN body[1].page
       IN /\ ~authentic => http'.status = 403 /\ graph' = graph
          /\ (authentic /\ ~formed) => http'.status = 400 /\ graph' = graph
          /\ graph' # graph => authentic /\ formed]_vars

\* C20: GET /health is answered 200 exactly when the service has a driver and
\* Neo4j answers, and 503 otherwise, and changes nothing; and in every state
\* in which /health is answered 503, a POST /ingest_page with the right key
\* and a payload is answered 500 and leaves the graph as it was.
C20_HealthTellsUsable ==
  /\ [](health(driver, neo_up) = 503 =>
          \A body \in {b \in RequestBodies : WellFormed(b)} :
            ingest_page(<<API_SECRET>>, body, graph, driver, neo_up, API_SECRET, now)
              = [status |-> 500, graph |-> graph])
  /\ [][(requests' = requests + 1 /\ http'.method = "GET") =>
         /\ http'.status = IF driver # NoDriver /\ neo_up THEN 200 ELSE 503
         /\ graph' = graph]_vars

(* ================ the claims, one uninterrupted worker ================ *)

AllResolved == \A u \in Present(seeds) : seeds[u].status \in Terminal

\* C6: with one worker that keeps running, every pending seed eventually is
\* ingested, discarded or failed_perm, whatever the fetches and the ingestion
\* answer, and from some point on no seed is pending or in_progress.
C6_NoSeedLost ==
  /\ \A u \in Urls : (seeds[u].status = "pending") ~> (seeds[u].status \in Terminal)
  /\ <>[]AllResolved

\* The whole chain was found and every seed is resolved, one of them given up.
C6_Witness ==
  /\ AllResolved
  /\ Cardinality(Present(seeds)) >= 6
  /\ \E u \in Urls : seeds[u].status = "failed_perm"

(* ====================== the claims, two workers ======================= *)

\* C2: pop_next_seed never returns a seed that is in_progress: between two
\* returns of the same seed it was set back to pending (or to a terminal
\* status); of the workers that call it for one pending seed, one gets it.
C2_ExclusiveClaim ==
  \A u \in Urls :
    /\ claims[u] <= 1
    /\ seeds[u].status = "in_progress" => claims[u] = 1

\* One worker holds the only claimable seed; the other asked and got None.
C2_Witness ==
  \E w, v \in Workers :
    /\ w # v
    /\ pc[w] = "claimed" /\ seeds[cur[w].url].status = "in_progress"
    /\ pc[v] = "sleep" /\ cur[v] = NoCur

\* C3: once a seed is ingested, discarded or failed_perm, no later store call
\* of any worker changes its status.
C3_TerminalIsFinal ==
  [][\A u \in Urls :
       seeds[u].status \in Terminal => seeds'[u].status = seeds[u].status]_vars

\* The seeds that count towards the page budget.
Budgeted(S) == {u \in Urls : S[u].status \in {"ingested", "discarded"}}

\* The worker is between two iterations.
AtBoundary(w) == pc[w] \in {"off", "loop", "sleep", "done"}

\* C22: between the iterations of the single worker the counter equals the
\* number of ingested and discarded seeds (each was counted once, and no
\* reverted or failed seed was counted).
C22_CounterCountsTerminal ==
  \A w \in active : AtBoundary(w) => count = Cardinality(Budgeted(seeds))

(* ================ the claims, merges into the graph =================== *)

\* The last request was a POST answered with 200, and its page.
Ingested(h) == h.method = "POST" /\ h.status = 200
PageOf(h) == h.body[1].page

\* A title or text that is there.
NonEmpty(x) == x \notin {Null, ""}

\* C26: a Page keeps a non-empty title and a non-empty text unless the ingest
\* of its url brings another non-empty one; its first_seen, once set, stays;
\* and the ingest of a url whose Page exists sets updated_at to the crawl_date
\* of the payload (the time of the request when it has none).
C26_PageMergeKeepsData ==
  [][\A u \in DOMAIN graph.pages :
       /\ u \in DOMAIN graph'.pages
       /\ NonEmpty(graph.pages[u].title) =>
            /\ NonEmpty(graph'.pages[u].title)
            /\ graph'.pages[u].title # graph.pages[u].title =>
                 /\ Ingested(http') /\ Get(PageOf(http'), "url", NoUrl) = u
                 /\ graph'.pages[u].title = PageOf(http').title
       /\ NonEmpty(graph.pages[u].text) =>
            /\ NonEmpty(graph'.pages[u].text)
            /\ graph'.pages[u].text # graph.pages[u].text =>
                 /\ Ingested(http') /\ Get(PageOf(http'), "url", NoUrl) = u
                 /\ graph'.pages[u].text = PageOf(http').text
       /\ graph.pages[u].first_seen # NoTime =>
            graph'.pages[u].first_seen = graph.pages[u].first_seen
       /\ (/\ requests' = requests + 1 /\ Ingested(http')
           /\ Get(PageOf(http'), "url", NoUrl) = u) =>
            graph'.pages[u].updated_at =
              coalesce(Get(PageOf(http'), "crawl_date", NoTime), now)]_vars

\* A Page with a title has been ingested again with an empty title, and once
\* with another title.
C26_Witness ==
  /\ Ingested(http) /\ "url" \in DOMAIN PageOf(http)
  /\ PageOf(http).title = ""
  /\ PageOf(http).url \in DOMAIN graph.pages
  /\ graph.pages[PageOf(http).url].title = "t1"
  /\ graph.pages[PageOf(http).url].updated_at # NoTime
  /\ graph.pages[PageOf(http).url].first_seen # graph.pages[PageOf(http).url].updated_at

\* The link rows and the mention rows the last request has merged: those of
\* its payload when it was answered 200, none otherwise.
LinksOf(h) == IF Ingested(h) THEN Get(h.body[1], "links", << >>) ELSE << >>
MatchedOf(h) == IF Ingested(h) THEN Get(h.body[1], "matched_terms", << >>) ELSE << >>

\* The count of the edge k, 0 when there is none.
CountOf(edges, k) == IF k \in DOMAIN edges THEN edges[k].count ELSE 0

\* C27: LINKS_TO edges are keyed by (src, dst) and MENTIONS edges by (page,
\* synonym, source, root); an edge that exists stays, with the depth and
\* first_detected (first_seen) it was created with; the count of an edge never
\* decreases, and after a request it is the count before (0 for an edge there
\* was not) plus the number of rows of the request that name the edge, each row
\* being one observation: 1 for an edge created from one row.
C27_EdgeCountsMonotonic ==
  [][/\ \A k \in DOMAIN graph.links :
          /\ k \in DOMAIN graph'.links
          /\ graph'.links[k].count >= graph.links[k].count
          /\ graph'.links[k].depth = graph.links[k].depth
          /\ graph'.links[k].first_detected = graph.links[k].first_detected
     /\ \A k \in DOMAIN graph.mentions :
          /\ k \in DOMAIN graph'.mentions
          /\ graph'.mentions[k].count >= graph.mentions[k].count
          /\ graph'.mentions[k].first_seen = graph.mentions[k].first_seen
     /\ requests' = requests + 1 =>
          /\ \A k \in DOMAIN graph'.links :
               /\ graph'.links[k].count >= 1
               /\ graph'.links[k].count =
                    CountOf(graph.links, k) + RowsNaming(LinksOf(http'), k, LinkKey)
          /\ \A k \in DOMAIN graph'.mentions :
               /\ graph'.mentions[k].count >= 1
               /\ graph'.mentions[k].count =
                    CountOf(graph.mentions, k)
                      + RowsNaming(MatchedOf(http'), k, MentionKey)]_vars

\* The link from h1 to h2 and a mention on h1 were observed in two payloads
\* with different crawl dates: both are counted twice and carry the first date.
C27_Witness ==
  /\ <<Url("h1"), Url("h2")>> \in DOMAIN graph.links
  /\ graph.links[<<Url("h1"), Url("h2")>>].count = 2
  /\ graph.links[<<Url("h1"), Url("h2")>>].first_detected = InitNow + 1
  /\ graph.links[<<Url("h1"), Url("h2")>>].last_detected = InitNow + 2
  /\ \E k \in DOMAIN graph.mentions :
       /\ k[1] = Url("h1") /\ graph.mentions[k].count = 2
       /\ graph.mentions[k].first_seen = InitNow + 1

\* C28: once a request with a payload is answered, the graph is the one
\* before the request when the answer is 500, and the one before the request
\* with the page, the links and the mentions of the payload merged when the
\* answer is 200.
C28_OneLogicalUnit ==
  (stmt = 0 /\ requests > 0) =>
    /\ http.status = 500 => graph = before
    /\ http.status = 200 =>
         graph = upsert_page_and_relations(before, http.body[1], now)

(* ================== the claims, the pace of the loop ================== *)

\* C29: pop_next_seed is called at the head of the loop, and a worker that has
\* called it comes back to the head of the loop by the sleep alone, whatever
\* path the iteration took: between two calls it has slept.
C29_SleepBetweenPops ==
  [][\A w \in Workers :
       (pc[w] \notin {"off", "loop"} /\ pc'[w] = "loop") => pc[w] = "sleep"]_vars

(* ===================== the claims, the interrupt ====================== *)

\* The worker holds a seed it has claimed and not yet resolved.
Busy(w) == pc[w] \in {"claimed", "save", "links"}

\* pop_next_seed is called.
Pops(w) == pc[w] = "head" /\ pc'[w] \in {"claimed", "sleep"}

\* What the interrupt leaves in any case: the iteration in flight ends with
\* its seed pending or terminal, the worker then leaves the loop and closes
\* the connection to the Seed Store, and running stays False.
WindsDown ==
  /\ [][\A w \in active :
          /\ (Busy(w) /\ ~Busy(w)') =>
               seeds'[cur[w].url].status \in {"pending"} \cup Terminal
          /\ ~running[w] => ~running'[w]
          /\ pc[w] = "done" => pc'[w] = "done"]_vars
  /\ \A w \in Workers : (w \in active /\ ~running[w]) ~> pc[w] = "done"

\* C30 as stated: once running is False the worker calls pop_next_seed no
\* more; the iteration in flight ends with its seed pending or terminal; the
\* connection is then closed.
C30_NoPopAfterSignal ==
  /\ [][\A w \in active : Pops(w) => running[w]]_vars
  /\ WindsDown

\* C30, amended: once running is False the worker begins no further turn of
\* the loop, and pop_next_seed is called only in a turn that was begun, so at
\* most the call of the turn whose "while self.running" test had passed when
\* the signal came is still made; the iteration in flight ends with its seed
\* pending or terminal; the connection is then closed.
C30_NoTurnAfterSignal ==
  /\ [][\A w \in active :
          /\ (pc[w] # "head" /\ pc'[w] = "head") => running[w]
          /\ (pc[w] # "claimed" /\ pc'[w] = "claimed") => pc[w] = "head"]_vars
  /\ WindsDown

\* The signal came inside an iteration that has since ended with its seed
\* ingested; the worker has left the loop and closed the connection.
C30_Witness ==
  /\ ~running[1] /\ pc[1] = "done"
  /\ seeds[Url("h0")].status = "ingested"
  /\ seeds[Url("h1")].status = "pending"

(* ================= the claims, errors in an iteration ================= *)

\* C31: whatever happens to a claimed seed, the iteration ends with the seed
\* pending or terminal and with the worker in its loop, at the count or at the
\* sleep before the next claim.
C31_ErrorsContained ==
  [][\A w \in active :
       (Busy(w) /\ ~Busy(w)') =>
          /\ seeds'[cur[w].url].status \in {"pending"} \cup Terminal
          /\ pc'[w] \in {"loop", "count", "sleep"}]_vars

(* ================ the claims, one seed at a time ====================== *)

\* pop_next_seed is called at the head of the loop.
PopsAtLoop(w) == pc[w] = "loop" /\ pc'[w] \in {"claimed", "sleep"}

\* The seed a dead worker left in_progress before this worker was started, as
\* long as nothing has touched it.
LeftBehind(u) == seeds[u] = Seed("in_progress", 1, 0, Terms, 5, InitNow)

\* Between its claim and the end of the iteration the claimed seed is written
\* by no call; the iteration ends with one call of mark_done, mark_failed or
\* revert_to_pending, which leaves it ingested, discarded, failed_perm or
\* pending.
ResolvedOnce ==
  [][\A w \in active :
       /\ (Busy(w) /\ Busy(w)') => seeds'[cur[w].url] = seeds[cur[w].url]
       /\ (Busy(w) /\ ~Busy(w)') =>
            /\ seeds[cur[w].url].status = "in_progress"
            /\ seeds'[cur[w].url].status \in {"pending"} \cup Terminal
            /\ \A u \in Urls \ {cur[w].url} : seeds'[u] = seeds[u]]_vars

\* C32 as stated: at every call of pop_next_seed no seed is in_progress, and
\* every iteration resolves the seed it claimed by one call before the next claim.
C32_NoneInProgressAtPop ==
  /\ [][\A w \in active :
          PopsAtLoop(w) => \A u \in Urls : seeds[u].status # "in_progress"]_vars
  /\ ResolvedOnce

\* C32, amended: at every call of pop_next_seed no seed is in_progress but
\* the seeds that were in_progress when the worker was started and are not
\* older than the reclaim window, and every iteration resolves the seed it
\* claimed by one call before the next claim.
C32_OnlyLeftBehindAtPop ==
  /\ [][\A w \in active :
          PopsAtLoop(w) =>
            \A u \in Urls : seeds[u].status = "in_progress" => LeftBehind(u)]_vars
  /\ ResolvedOnce

\* The worker has claimed its third seed, the two before are resolved, one of
\* them given up, and the seed left behind is still in_progress.
C32_Witness ==
  /\ pc[1] = "claimed"
  /\ LeftBehind(Url("hx"))
  /\ \E u \in Urls : seeds[u].status = "failed_perm"
  /\ \E u \in Urls : seeds[u].status \in {"ingested", "discarded"}
  /\ Cardinality({u \in Urls : seeds[u].status = "in_progress"}) = 2

(* ================ the claims, what an iteration leaves ================ *)

\* The origins of seed u that name url as the parent.
OriginsFrom(S, u, url) ==
  IF S[u] = NoSeed THEN {}
  ELSE {i \in 1..Len(S[u].origins) : S[u].origins[i].parent = url}

\* C33: when an iteration ends, after its link loop, with its seed discarded
\* for want of terms or reverted to pending after the POST, no seed of the
\* store names its url as the parent of an origin: it has inserted no child
\* and added no origin.
C33_FedOnlyOn200 ==
  [][\A w \in active :
       (/\ pc[w] = "links" /\ pc'[w] # "links"
        /\ seeds'[cur[w].url].status \in {"discarded", "pending"}) =>
          \A u \in Urls : OriginsFrom(seeds', u, cur[w].url) = {}]_vars

\* C34: a seed is inserted with attempts 0; the step in which pop_next_seed
\* claims it (pending becomes in_progress) adds exactly 1 to its attempts, and
\* every other step (a revert, mark_done, mark_failed, the reset of stale
\* seeds, ensure_seed or a load of the seed file for a url that exists) leaves
\* its attempts as they are: attempts count the claims and never decrease.
C34_AttemptsCountClaims ==
  [][\A u \in Urls :
       /\ (seeds[u] = NoSeed /\ seeds'[u] # NoSeed) => seeds'[u].attempts = 0
       /\ seeds[u] # NoSeed =>
            /\ seeds'[u] # NoSeed
            /\ seeds'[u].attempts =
                 seeds[u].attempts
                   + IF seeds[u].status = "pending" /\ seeds'[u].status = "in_progress"
                     THEN 1 ELSE 0]_vars

\* A seed was claimed, reverted, claimed again and resolved, and the seed file
\* that names it was loaded after its first claim: its attempts are 2.
C34_Witness ==
  /\ loads = 1
  /\ seeds[Url("h3")].attempts = 2
  /\ seeds[Url("h3")].status \in Terminal
  /\ seeds[Url("h3")].detected = Terms

(* ==================== the claims, what is crawled ===================== *)

\* C35: every seed of the store and the destination of every link-edge a
\* worker has recorded is on an onion host.
C35_OnlyOnionHosts ==
  /\ \A u \in Urls : seeds[u] # NoSeed => u[1] \in OnionHosts
  /\ \A w \in Workers : \A i \in 1..Len(links_list[w]) :
       links_list[w][i].dst_url[1] \in OnionHosts

(* =================== the claims, the order of claims ================== *)

\* C25: pop_next_seed returns None only when no seed is pending; the seed it
\* returns was pending, is in_progress with last_try stamped, and no pending
\* seed had a smaller depth, or the same depth and a higher priority, or the
\* same depth and priority and an older created_at.
C25_PopOrder ==
  [][\A w \in active :
       /\ (pc[w] = "loop" /\ pc'[w] = "claimed") =>
            LET u == cur'[w].url
            IN /\ seeds[u].status = "pending"
               /\ seeds'[u].status = "in_progress"
               /\ seeds'[u].last_try = now
               /\ \A v \in Urls :
                    seeds[v].status = "pending" =>
                      ~(\/ seeds[v].depth < seeds[u].depth
                        \/ /\ seeds[v].depth = seeds[u].depth
                           /\ seeds[v].priority > seeds[u].priority
                        \/ /\ seeds[v].depth = seeds[u].depth
                           /\ seeds[v].priority = seeds[u].priority
                           /\ seeds[v].created_at < seeds[u].created_at)
       /\ (pc[w] = "loop" /\ pc'[w] = "sleep") =>
            \A v \in Urls : seeds[v].status # "pending"]_vars

\* A seed was claimed while a newer one of its depth and a deeper one wait.
C25_Witness ==
  \E w \in active :
    /\ pc[w] = "claimed"
    /\ \E v \in Urls : /\ seeds[v].status = "pending" /\ seeds[v].depth = cur[w].depth
                       /\ seeds[v].created_at > seeds[cur[w].url].created_at
    /\ \E v \in Urls : seeds[v].status = "pending" /\ seeds[v].depth > cur[w].depth

\* The seeds that were claimed at least once (attempts count the claims).
WasClaimed(S) == {v \in Urls : S[v] # NoSeed /\ S[v].attempts >= 1}

\* C36: with one worker on a store whose depth-0 seeds were loaded before it
\* started, the seed a pop claims is no shallower than any seed claimed
\* before it, and after every step each seed is at most one deeper than every
\* parent its origins name.
C36_BreadthFirstDepth ==
  [][/\ \A w \in active :
          (pc[w] = "loop" /\ pc'[w] = "claimed") =>
             \A v \in WasClaimed(seeds) : seeds[v].depth <= cur'[w].depth
     /\ \A s \in Urls : \A p \in Urls :
          OriginsFrom(seeds', s, p) # {} =>
             /\ seeds'[p] # NoSeed
             /\ seeds'[s].depth <= seeds'[p].depth + 1]_vars

\* A seed of depth 2 was claimed after seeds of depth 0 and 1, and its page
\* links to a seed of depth 0, which has gained it as a parent.
C36_Witness ==
  \E w \in active : \E s \in Urls :
    /\ cur[w].depth = 2 /\ seeds[cur[w].url].status = "in_progress"
    /\ \E v \in WasClaimed(seeds) : seeds[v].depth = 1
    /\ OriginsFrom(seeds, s, cur[w].url) # {}
    /\ seeds[s].depth = 0

\* The pending seeds that were claimed before: reverted to pending, or put
\* back by the reset of stale seeds.
Reverted(S) == {v \in Urls : S[v] # NoSeed /\ S[v].status = "pending" /\ S[v].attempts >= 1}

\* a comes before b in (depth, -priority, created_at).
KeyBefore(a, b) ==
  \/ a.depth < b.depth
  \/ a.depth = b.depth /\ a.priority > b.priority
  \/ a.depth = b.depth /\ a.priority = b.priority /\ a.created_at < b.created_at

\* C37, as stated: with one worker and no seed load, the seed a pop returns is
\* the reverted seed whenever there is one, so the retries of a seed are
\* consecutive.
C37_RevertedIsNext ==
  [][\A w \in active :
       (pc[w] = "loop" /\ pc'[w] = "claimed") =>
          \A v \in Reverted(seeds) : cur'[w].url = v]_vars

\* C37, amended: at a pop a reverted seed has the minimal key, no pending seed
\* comes before it; it is the seed returned when no other pending seed has
\* the same depth, priority and created_at.
C37_RevertedIsMinimal ==
  [][\A w \in active :
       (pc[w] = "loop" /\ pc'[w] = "claimed") =>
          \A v \in Reverted(seeds) :
             LET Others == {x \in Urls \ {v} : seeds[x] # NoSeed /\ seeds[x].status = "pending"}
             IN /\ \A x \in Others : ~KeyBefore(seeds[x], seeds[v])
                /\ (\A x \in Others : KeyBefore(seeds[v], seeds[x])) => cur'[w].url = v]_vars

\* A seed that was reverted is claimed again: seeds are pending, and every one
\* of them comes after it in the sort.
C37_Witness ==
  \E w \in active :
    LET Others == {x \in Urls : seeds[x] # NoSeed /\ seeds[x].status = "pending"}
    IN /\ pc[w] = "claimed"
       /\ seeds[cur[w].url].attempts >= 2
       /\ Others # {}
       /\ \A x \in Others : KeyBefore(seeds[cur[w].url], seeds[x])

(* ==================== the claims, the content store =================== *)

\* The workers whose step stores the snapshot of url u: the text passed the
\* length filter and save_html_to_gridfs returned.
Storing(u) == {w \in active : pc[w] = "save" /\ pc'[w] = "links" /\ cur[w].url = u}

\* The blobs of url u that the html_file_id of no seed references.
Orphans(S, G, u) == {n \in 1..G[u] : \A v \in Urls : S[v] = NoSeed \/ S[v].html_file_id # <<u[1], n>>}

\* The blobs of url u stored in an iteration that is not over.
Held(u) == {n \in 1..gridfs[u] : \E w \in active : pc[w] = "links" /\ gridfs_ref[w] = <<u[1], n>>}

\* C38: a step adds a blob for a url exactly when it is the store step of an
\* iteration on that url, and the blob is new; the no-terms check and the POST
\* (the step that leaves the link loop) come after the blob of the iteration
\* was stored; the blob of an iteration that ends with the seed discarded for
\* no matching terms or reverted after the POST is referenced by no seed, and
\* a blob left so is never referenced later.
C38_BlobsPerStoredIteration ==
  [][/\ \A u \in Urls : gridfs'[u] = gridfs[u] + Cardinality(Storing(u))
     /\ \A w \in active :
          /\ w \in Storing(cur[w].url) =>
               /\ gridfs_ref'[w] = <<cur[w].url[1], gridfs'[cur[w].url]>>
               /\ gridfs_ref'[w][2] \notin 1..gridfs[cur[w].url]
          /\ (pc[w] = "links" /\ pc'[w] # "links") =>
               /\ gridfs_ref[w][1] = cur[w].url[1]
               /\ gridfs_ref[w][2] \in 1..gridfs[cur[w].url]
               /\ seeds'[cur[w].url].status \in {"discarded", "pending"} =>
                    gridfs_ref[w][2] \in Orphans(seeds', gridfs', cur[w].url)
     /\ \A u \in Urls :
          (Orphans(seeds, gridfs, u) \ Held(u)) \subseteq Orphans(seeds', gridfs', u)]_vars

\* One seed is discarded for no matching terms with its blob stored, and
\* another is ingested on a retry after an ingestion failure, which left a
\* blob behind.
C38_Witness ==
  \E u \in Urls : \E v \in Urls :
    /\ seeds[u] # NoSeed /\ seeds[u].discard_reason = "no_matching_terms_propagated"
    /\ Orphans(seeds, gridfs, u) # {}
    /\ seeds[v] # NoSeed /\ seeds[v].status = "ingested"
    /\ Orphans(seeds, gridfs, v) # {}

(* ================= the claims, the node of a page ===================== *)

\* C39: when the ingestion POST of a worker is answered 200, the Page node of
\* the url it posted has host, first_seen and has_html_content set, also when
\* the node was first created as the destination of a link.
C39_IngestedPageComplete ==
  [][\A w \in active :
       (/\ pc[w] = "links" /\ pc'[w] = "count"
        /\ "post" \in did'[w] /\ resp'[w] = <<200>>) =>
          /\ cur[w].url \in DOMAIN graph'.pages
          /\ graph'.pages[cur[w].url].host = cur[w].url[1]
          /\ graph'.pages[cur[w].url].first_seen # NoTime
          /\ graph'.pages[cur[w].url].has_html_content]_vars

(* =================== the claims, what is ingested ===================== *)

\* C40: a step that makes a seed ingested is the step of a worker on that
\* seed whose fetch returned a text of at least min_text_chars, whose detected,
\* as claimed, is not empty and gave at least one matched-term record, which
\* stored a blob whose id becomes the html_file_id of the seed, and whose POST
\* was answered 200; and after every step every ingested seed has an
\* html_file_id.
C40_IngestedOnlyAfterSuccess ==
  [][/\ \A u \in Urls :
          (/\ seeds'[u] # NoSeed /\ seeds'[u].status = "ingested"
           /\ (seeds[u] = NoSeed \/ seeds[u].status # "ingested")) =>
             \E w \in active :
               /\ cur[w].url = u
               /\ {"fetch", "store", "post"} \subseteq did'[w]
               /\ Web[u[1]].long
               /\ cur[w].detected # << >>
               /\ MatchedTerms(u, cur[w].detected, crawled[w]) # << >>
               /\ gridfs_ref[w][1] = u[1] /\ gridfs_ref[w][2] \in 1..gridfs[u]
               /\ seeds'[u].html_file_id = gridfs_ref[w]
               /\ resp'[w] = <<200>>
     /\ \A u \in Urls :
          (seeds'[u] # NoSeed /\ seeds'[u].status = "ingested") =>
             seeds'[u].html_file_id # << >>]_vars

\* A seed is ingested on its second attempt, after an iteration whose POST
\* failed, while a seed with empty detected was discarded.
C40_Witness ==
  \E u \in Urls : \E v \in Urls :
    /\ seeds[u] # NoSeed /\ seeds[u].status = "ingested" /\ seeds[u].attempts >= 2
    /\ seeds[u].html_file_id = <<u[1], 2>>
    /\ seeds[v] # NoSeed /\ seeds[v].detected = << >> /\ seeds[v].status = "discarded"

(* ======================= the claims, the sanitizer ==================== *)

\* The elements of a forest, at any depth.
RECURSIVE Elements(_)
Elements(kids) ==
  UNION { IF IsElem(kids[i]) THEN {kids[i]} \cup Elements(kids[i].kids) ELSE {} :
            i \in DOMAIN kids }

\* The texts of a forest, in document order.
RECURSIVE Texts(_)
Texts(kids) ==
  IF kids = << >> THEN << >>
  ELSE (IF IsElem(Head(kids)) THEN Texts(Head(kids).kids) ELSE << Head(kids).text >>)
       \o Texts(Tail(kids))

\* What is to be left of a forest: its texts but those inside the elements that
\* go as a whole, with a placeholder carrying the alt text for each image.
RECURSIVE Shown(_)
Shown(kids) ==
  IF kids = << >> THEN << >>
  ELSE LET n == Head(kids)
       IN (IF ~IsElem(n) THEN << n.text >>
           ELSE IF n.tag \in {"script", "style", "noscript", "iframe", "form", "object",
                              "embed"}
           THEN << >>
           ELSE IF n.tag = "img"
           THEN << " [IMG: " \o (IF ALT \in DOMAIN n.attrs THEN n.attrs[ALT]
                                 ELSE "[imagen]") \o "] " >>
           ELSE Shown(n.kids))
          \o Shown(Tail(kids))

\* The part of the input the snapshot is made of: its body, or all of it.
Source(soup) == IF FindBody(soup.kids) # << >> THEN FindBody(soup.kids) ELSE << soup >>

\* C24: the sanitized document holds no script, style, noscript, iframe,
\* form, object, embed, img or a element and no refreshing meta, no attribute
\* whose name starts with "on" and no style, src, srcset, href or data
\* attribute; what the anchors held is kept in their place, and each image
\* has become a text with its alt.
C24_Sanitized ==
  safe_html # << >> =>
    /\ \A e \in Elements(safe_html) :
         /\ e.tag \notin {"script", "style", "noscript", "iframe", "form", "object",
                          "embed", "img", "a"}
         /\ ~(/\ e.tag = "meta" /\ HTTP_EQUIV \in DOMAIN e.attrs
              /\ e.attrs[HTTP_EQUIV] \in {"refresh", "Refresh", "REFRESH"})
         /\ \A a \in DOMAIN e.attrs :
              /\ ~(Len(a) >= 2 /\ a[1] \in {"o", "O"} /\ a[2] \in {"n", "N"})
              /\ Lower(a) \notin {STYLE, Lower(SRC), SRCSET, HREF, DATA}
    /\ Texts(safe_html) = Shown(Source(html))

\* A page was sanitized whose body holds an anchor around an image with an alt
\* text, inside a paragraph with a style attribute.
C24_Witness ==
  /\ safe_html # << >> /\ safe_html[1].tag = "body"
  /\ \E e \in Elements(html.kids) :
       e.tag = "a" /\ \E k \in Elements(e.kids) : k.tag = "img" /\ ALT \in DOMAIN k.attrs
  /\ \E e \in Elements(html.kids) : e.tag = "p" /\ STYLE \in DOMAIN e.attrs
  /\ " [IMG: cat] " \in Range(Texts(safe_html))
  /\ \E e \in Elements(safe_html) : e.tag = "p" /\ CLASS \in DOMAIN e.attrs

(* ================= the claims, clients that upsert seeds ============== *)

\* C23: the collection holds at most one seed document for a url.
C23_UrlUnique == \A u \in Urls : extra[u] = 0

(* ==================== the claims, a worker that dies ================== *)

\* The seed is in_progress and no worker holds it.
Abandoned(u) == seeds[u].status = "in_progress" /\ \A w \in active : cur[w].url # u

\* pop_next_seed has just returned the seed to a worker.
ClaimedAgain(u) == \E w \in active : pc[w] = "claimed" /\ cur[w].url = u

\* C21 as stated: an abandoned seed whose last_try is older than the reclaim
\* window is claimed again as soon as some worker is running.
C21_RecoveredWhileRunning ==
  \A u \in Urls :
    (/\ Abandoned(u) /\ IsStale(seeds[u], now)
     /\ \E w \in active : pc[w] \notin {"off", "done"})
      ~> ClaimedAgain(u)

\* C21, amended: a worker that starts returns every seed that is in_progress
\* with a last_try older than the reclaim window to pending, and an abandoned
\* seed that old is claimed again once a worker is to start and keeps running.
C21_RecoveredAfterStart ==
  /\ [][\A w \in active : pc[w] = "off" /\ pc'[w] = "loop" =>
          \A u \in Urls : IsStale(seeds[u], now) => seeds'[u].status = "pending"]_vars
  /\ \A u \in Urls :
       (/\ Abandoned(u) /\ IsStale(seeds[u], now)
        /\ \E w \in active : pc[w] = "off")
         ~> ClaimedAgain(u)

\* A seed the worker abandoned when it died, reset at a later start, is claimed again.
C21_Witness ==
  \E u \in Urls :
    /\ ClaimedAgain(u) /\ ~clean[u] /\ seeds[u].status = "in_progress"
    /\ crashes > 0 /\ seeds[u].created_at > 5

====
